---------------------------- MODULE Spec2Model ----------------------------
(***************************************************************************)
(* A model of the AI placement predictor: ai_utils.py (Gemini calls with   *)
(* fallbacks), firebase_helper.py (document store), ml_model.py (the lazy  *)
(* employability predictor) and the quiz / profile flow of                 *)
(* streamlit_app.py.                                                       *)
(*                                                                         *)
(* External services (the Gemini API, the Firebase SDK, joblib / sklearn)  *)
(* are the environment: every call into them draws its outcome from the    *)
(* set of outcomes the library can produce (a value or an exception).      *)
(* A Python function that can go several ways is therefore an operator     *)
(* giving the SET of its possible outcomes.                                *)
(***************************************************************************)
EXTENDS Integers, Sequences, FiniteSets, TLC

VARIABLES gem, aiLast, predictor, modelFile, mlStats, mlLast, fb, fbLast,
          ss, ssKeys, radios, appLast

vars == <<gem, aiLast, predictor, modelFile, mlStats, mlLast, fb, fbLast,
          ss, ssKeys, radios, appLast>>

aiVars == <<gem, aiLast>>

mlVars == <<predictor, modelFile, mlStats, mlLast>>

fbVars == <<fb, fbLast>>

appVars == <<ss, ssKeys, radios, appLast>>

(***************************************************************************)
(* Python values.  A str is a sequence of atoms (a character, or a word    *)
(* that is never split); every JSON value is a record of one shape, so     *)
(* that values of different Python types compare unequal.                  *)
(***************************************************************************)
None == "None"

VNull == [t |-> "null", s |-> <<>>, keys |-> <<>>, items |-> <<>>]

VNum(n) == [t |-> "num", s |-> <<n>>, keys |-> <<>>, items |-> <<>>]

VStr(s) == [t |-> "str", s |-> s, keys |-> <<>>, items |-> <<>>]

VList(items) == [t |-> "list", s |-> <<>>, keys |-> <<>>, items |-> items]

VObj(keys, items) == [t |-> "obj", s |-> <<>>, keys |-> keys, items |-> items]

\* str.upper() of one character
Upper(c) == CASE c = "a" -> "A" [] c = "b" -> "B" [] c = "c" -> "C"
              [] c = "d" -> "D" [] OTHER -> c

\* needle in hay, for two str values (substring test)
IsSubstr(needle, hay) ==
    \E i \in 0..(Len(hay) - Len(needle)) :
        \A j \in 1..Len(needle) : hay[i + j] = needle[j]

\* seq[:n] for n >= 0
Take(seq, n) == SubSeq(seq, 1, IF n < Len(seq) THEN n ELSE Len(seq))

IsPrefix(p, seq) == Len(p) <= Len(seq) /\ SubSeq(seq, 1, Len(p)) = p

\* key in d, d[key] and d.get(key, default) of a dict
HasKey(d, key) == \E i \in 1..Len(d.keys) : d.keys[i] = key

GetKey(d, key) ==
    d.items[CHOOSE i \in 1..Len(d.keys) :
                d.keys[i] = key /\ \A j \in (i+1)..Len(d.keys) : d.keys[j] # key]

DictGet(d, key, default) == IF HasKey(d, key) THEN GetKey(d, key) ELSE default

\* d[key] = v
SetKey(d, key, v) ==
    IF HasKey(d, key)
    THEN [d EXCEPT !.items = [i \in 1..Len(d.items) |->
                                 IF d.keys[i] = key THEN v ELSE d.items[i]]]
    ELSE [d EXCEPT !.keys = Append(d.keys, key), !.items = Append(d.items, v)]


(***************************************************************************)
(* Text.  A response text is a sequence of tokens: a code fence, a         *)
(* bracket, a key of an object, a literal, white space or a word of prose  *)
(* (commas and colons are left out).                                       *)
(***************************************************************************)
FenceJson == "<fence json>"

Fence == "<fence>"

WS == " "

\* the string literals that occur in responses, with the str each denotes
StrLits ==
    {"s:B", "s:b) stack", "s:T1", "s:T2", "s:A) Queue", "s:B) Stack",
     "s:x", "s:question options answer"}

LitStr(tok) ==
    CASE tok = "s:B" -> <<"B">>
      [] tok = "s:b) stack" -> <<"b", ")", " ", "stack">>
      [] tok = "s:T1" -> <<"T1">>
      [] tok = "s:T2" -> <<"T2">>
      [] tok = "s:A) Queue" -> <<"A", ")", " ", "Queue">>
      [] tok = "s:B) Stack" -> <<"B", ")", " ", "Stack">>
      [] tok = "s:x" -> <<"x">>
      [] tok = "s:question options answer" ->
            <<"question", " ", "options", " ", "answer">>

KeyToks == {"question:", "options:", "answer:", "explanation:", "foo:"}

KeyStr(tok) ==
    CASE tok = "question:" -> <<"question">>
      [] tok = "options:" -> <<"options">>
      [] tok = "answer:" -> <<"answer">>
      [] tok = "explanation:" -> <<"explanation">>
      [] tok = "foo:" -> <<"foo">>

\* text.strip()
RECURSIVE LStrip(_)
LStrip(text) ==
    IF text # <<>> /\ Head(text) = WS THEN LStrip(Tail(text)) ELSE text

RECURSIVE RStrip(_)
RStrip(text) ==
    IF text # <<>> /\ text[Len(text)] = WS
    THEN RStrip(SubSeq(text, 1, Len(text) - 1))
    ELSE text

Strip(text) == RStrip(LStrip(text))

\* sep in text, where the fence is also found at the start of the json fence
Contains(text, sep) ==
    \E i \in 1..Len(text) :
        text[i] = sep \/ (sep = Fence /\ text[i] = FenceJson)

\* text.find(tok): the first index, counted from 0, or -1
Find(text, tok) ==
    IF \E i \in 1..Len(text) : text[i] = tok
    THEN (CHOOSE i \in 1..Len(text) :
              text[i] = tok /\ \A j \in 1..(i-1) : text[j] # tok) - 1
    ELSE -1

\* text.rfind(tok): the last index, counted from 0, or -1
RFind(text, tok) ==
    IF \E i \in 1..Len(text) : text[i] = tok
    THEN (CHOOSE i \in 1..Len(text) :
              text[i] = tok /\ \A j \in (i+1)..Len(text) : text[j] # tok) - 1
    ELSE -1

\* text.split(sep)[0] and text.split(sep)[1], for a text that holds sep
SplitFirst(text, sep) ==
    IF Find(text, sep) >= 0 THEN SubSeq(text, 1, Find(text, sep)) ELSE text

SplitSecond(text, sep) ==
    LET rest == SubSeq(text, Find(text, sep) + 2, Len(text))
    IN  IF Find(rest, sep) >= 0 THEN SplitFirst(rest, sep) ELSE rest

(***************************************************************************)
(* json.loads: a recursive-descent reading of the tokens.                  *)
(***************************************************************************)
ParseFail == [ok |-> FALSE, v |-> VNull, next |-> 0]

RECURSIVE ParseValue(_, _)
RECURSIVE ParseItems(_, _, _)
RECURSIVE ParseMembers(_, _, _, _)

ParseValue(toks, i) ==
    IF i > Len(toks) THEN ParseFail
    ELSE LET tok == toks[i]
         IN  CASE tok = "[" -> ParseItems(toks, i + 1, <<>>)
               [] tok = "{" -> ParseMembers(toks, i + 1, <<>>, <<>>)
               [] tok = "7" -> [ok |-> TRUE, v |-> VNum(7), next |-> i + 1]
               [] tok = "null" -> [ok |-> TRUE, v |-> VNull, next |-> i + 1]
               [] tok \in StrLits ->
                     [ok |-> TRUE, v |-> VStr(LitStr(tok)), next |-> i + 1]
               [] OTHER -> ParseFail

ParseItems(toks, i, acc) ==
    IF i > Len(toks) THEN ParseFail
    ELSE IF toks[i] = "]"
         THEN [ok |-> TRUE, v |-> VList(acc), next |-> i + 1]
         ELSE LET r == ParseValue(toks, i)
              IN  IF r.ok THEN ParseItems(toks, r.next, Append(acc, r.v))
                  ELSE ParseFail

ParseMembers(toks, i, ks, vs) ==
    IF i > Len(toks) THEN ParseFail
    ELSE IF toks[i] = "}"
         THEN [ok |-> TRUE, v |-> VObj(ks, vs), next |-> i + 1]
         ELSE IF toks[i] \in KeyToks
              THEN LET r == ParseValue(toks, i + 1)
                   IN  IF r.ok
                       THEN ParseMembers(toks, r.next,
                                         Append(ks, KeyStr(toks[i])),
                                         Append(vs, r.v))
                       ELSE ParseFail
              ELSE ParseFail

\* json.loads(text): ok = FALSE stands for json.JSONDecodeError
json_loads(text) ==
    LET r == ParseValue(text, 1)
    IN  IF r.ok /\ r.next = Len(text) + 1
        THEN [ok |-> TRUE, v |-> r.v]
        ELSE [ok |-> FALSE, v |-> VNull]


(***************************************************************************)
(* ai_utils.safe_generate_content.  responses[k] is what the k-th call of  *)
(* model.generate_content does: raise, or give a response with that text.  *)
(***************************************************************************)
max_retries == 3

Raises == [exc |-> TRUE, text |-> <<>>]

Responds(text) == [exc |-> FALSE, text |-> text]

NoText == [some |-> FALSE, text |-> <<>>]

SomeText(text) == [some |-> TRUE, text |-> text]

RECURSIVE safe_generate_attempt(_, _)
safe_generate_attempt(responses, attempt) ==
    IF attempt > max_retries THEN NoText
    ELSE LET response == responses[attempt]
         IN  IF ~response.exc /\ response.text # <<>>
                              /\ Strip(response.text) # <<>>
             THEN SomeText(Strip(response.text))
             ELSE safe_generate_attempt(responses, attempt + 1)

safe_generate_content(responses) == safe_generate_attempt(responses, 1)

\* the ways an attempt can fail: an exception, no text, white space only
FailedResponses == {Raises, Responds(<<>>), Responds(<<WS>>)}

FailSeqs(k) == [1..k -> FailedResponses]

\* what the API may do during one call of safe_generate_content, given the
\* texts it may answer with: some attempts fail, then one answers, or all fail
GenOracles(pool) ==
    FailSeqs(max_retries) \cup
    { f \o <<Responds(t)>> \o [i \in 1..(max_retries - Len(f) - 1) |-> Raises] :
        f \in UNION { FailSeqs(k) : k \in 0..(max_retries - 1) }, t \in pool }

SafeGenOutcomes(pool) == { safe_generate_content(o) : o \in GenOracles(pool) }

(***************************************************************************)
(* ai_utils.get_fallback_questions                                         *)
(***************************************************************************)
Question(q, opts, ans, expl) ==
    VObj(<< <<"question">>, <<"options">>, <<"answer">>, <<"explanation">> >>,
         << VStr(<<q>>), VList(opts), VStr(<<ans>>), VStr(<<expl>>) >>)

Option(letter, body) == VStr(<<letter, ")", " ", body>>)

get_fallback_questions ==
    << Question("Which data structure follows LIFO?",
                << Option("A", "Queue"), Option("B", "Stack"),
                   Option("C", "Array"), Option("D", "Linked List") >>,
                "B", "Stack follows LIFO"),
       Question("What is the time complexity of binary search?",
                << Option("A", "O(n)"), Option("B", "O(log n)"),
                   Option("C", "O(n2)"), Option("D", "O(1)") >>,
                "B", "Binary search halves the search space"),
       Question("Which language is used for machine learning?",
                << Option("A", "Java"), Option("B", "Python"),
                   Option("C", "C++"), Option("D", "HTML") >>,
                "B", "Python is widely used"),
       Question("What does SQL stand for?",
                << Option("A", "Structured Query Language"),
                   Option("B", "Simple Question Language"),
                   Option("C", "System Query Logic"),
                   Option("D", "Standard Question Format") >>,
                "A", "SQL stands for Structured Query Language"),
       Question("Which protocol is used for secure web communication?",
                << Option("A", "HTTP"), Option("B", "FTP"),
                   Option("C", "HTTPS"), Option("D", "SMTP") >>,
                "C", "HTTPS encrypts communication") >>

(***************************************************************************)
(* ai_utils.generate_quiz_for_subject, from the response text on.          *)
(***************************************************************************)
\* lines 174-186: strip, take the fenced part, cut to the outermost brackets
\* lines 177-180: the part between the fences
unfenced(text) ==
    IF Contains(text, FenceJson)
    THEN Strip(SplitFirst(SplitSecond(text, FenceJson), Fence))
    ELSE IF Contains(text, Fence)
         THEN Strip(SplitSecond(text, Fence))
         ELSE text

\* lines 183-186: response_text[start_idx:end_idx]
between_brackets(text, start_idx, end_idx) ==
    IF start_idx >= 0 /\ end_idx > start_idx
    THEN SubSeq(text, start_idx + 1, end_idx)
    ELSE text

outermost_brackets(text) == between_brackets(text, Find(text, "["), RFind(text, "]") + 1)

clean_response(response_text) == outermost_brackets(unfenced(Strip(response_text)))

QuizKeys == << <<"question">>, <<"options">>, <<"answer">> >>

\* for q in questions: what the iteration yields; a number or null raises
Iterable(v) == v.t \in {"list", "obj", "str"}

IterItems(v) ==
    CASE v.t = "list" -> v.items
      [] v.t = "obj" -> [i \in 1..Len(v.keys) |-> VStr(v.keys[i])]
      [] v.t = "str" -> [i \in 1..Len(v.s) |-> VStr(<<v.s[i]>>)]

\* key in q, for a q that supports it
KeyIn(key, q) ==
    CASE q.t = "obj" -> HasKey(q, key)
      [] q.t = "str" -> IsSubstr(key, q.s)
      [] q.t = "list" -> \E i \in 1..Len(q.items) : q.items[i] = VStr(key)

\* lines 195-197: the answer cut to its first character, in upper case
normalize_answer(q) ==
    LET a == GetKey(q, <<"answer">>)
    IN  IF a.t = "str" /\ Len(a.s) > 0
        THEN SetKey(q, <<"answer">>, VStr(<<Upper(a.s[1])>>))
        ELSE q

\* lines 193-198: the validation loop; exc = a TypeError left the loop
RECURSIVE validate_questions(_, _)
validate_questions(qs, acc) ==
    IF qs = <<>> THEN [exc |-> FALSE, validated |-> acc]
    ELSE LET q == Head(qs)
         IN  IF q.t \in {"num", "null"}
             THEN [exc |-> TRUE, validated |-> acc]
             ELSE IF \A i \in 1..Len(QuizKeys) : KeyIn(QuizKeys[i], q)
                  THEN IF q.t # "obj"
                       THEN [exc |-> TRUE, validated |-> acc]
                       ELSE validate_questions(Tail(qs),
                                               Append(acc, normalize_answer(q)))
                  ELSE validate_questions(Tail(qs), acc)

\* lines 169-214, given the result of safe_generate_content.  how says which
\* return statement was taken.
\* the same without the check that a question was validated (line 200)
validated_quiz_unchecked(r, fallback, num_questions) ==
    IF r.exc
    THEN [ret |-> fallback, how |-> "exception"]
    ELSE [ret |-> Take(r.validated, num_questions), how |-> "validated"]

\* lines 199-206: the validated questions, or the fallback when there is none
validated_quiz(r, fallback, num_questions) ==
    IF r.exc
    THEN [ret |-> fallback, how |-> "exception"]
    ELSE IF r.validated # <<>>
         THEN [ret |-> Take(r.validated, num_questions), how |-> "validated"]
         ELSE [ret |-> fallback, how |-> "no_valid"]

\* lines 189-198: the parsed response goes through the validation loop
parsed_quiz_unchecked(parsed, fallback, num_questions) ==
    IF ~parsed.ok
    THEN [ret |-> fallback, how |-> "json_error"]
    ELSE IF ~Iterable(parsed.v)
         THEN [ret |-> fallback, how |-> "exception"]
         ELSE validated_quiz_unchecked(validate_questions(IterItems(parsed.v), <<>>),
                                       fallback, num_questions)

parsed_quiz(parsed, fallback, num_questions) ==
    IF ~parsed.ok
    THEN [ret |-> fallback, how |-> "json_error"]
    ELSE IF ~Iterable(parsed.v)
         THEN [ret |-> fallback, how |-> "exception"]
         ELSE validated_quiz(validate_questions(IterItems(parsed.v), <<>>),
                             fallback, num_questions)

quiz_from_response_unchecked(response_text, num_questions) ==
    IF ~response_text.some
    THEN [ret |-> Take(get_fallback_questions, num_questions), how |-> "no_response"]
    ELSE parsed_quiz_unchecked(json_loads(clean_response(response_text.text)),
                               Take(get_fallback_questions, num_questions),
                               num_questions)

quiz_from_response(response_text, num_questions) ==
    IF ~response_text.some
    THEN [ret |-> Take(get_fallback_questions, num_questions), how |-> "no_response"]
    ELSE parsed_quiz(json_loads(clean_response(response_text.text)),
                     Take(get_fallback_questions, num_questions), num_questions)


(***************************************************************************)
(* The Gemini API as ai_utils sees it, and the module's globals            *)
(*   gem = [configured |-> _gemini_configured, model |-> _current_model,   *)
(*          avail |-> _available_models].                                  *)
(***************************************************************************)
model_priority ==
    << "models/gemini-2.5-flash-exp", "models/gemini-2.5-flash",
       "models/gemini-1.5-flash", "models/gemini-1.5-pro",
       "models/gemini-1.0-pro" >>

\* the lists genai.list_models() may give
ModelLists ==
    { <<>>,
      << "models/gemini-1.5-flash" >>,
      << "models/gemini-1.5-pro", "models/gemini-2.5-flash" >>,
      << "models/embedding-001", "models/gemini-exp" >> }

\* 'gemini' in model_name.lower()
IsGemini(name) == name # "models/embedding-001"

SeqRange(seq) == { seq[i] : i \in 1..Len(seq) }

\* model.generate_content("Test") of a model: a text, no text, an exception
TestOutcomes == {"text", "empty", "raise"}

\* genai.get_model(name).supported_generation_methods: with or without
\* generateContent, or the call raises
MetaOutcomes == {"generate", "other", "raise"}

\* lines 86-98: the first model of the priority list that is available and
\* passes its test
RECURSIVE first_priority_model(_, _, _)
first_priority_model(k, avail, test) ==
    IF k > Len(model_priority) THEN None
    ELSE IF model_priority[k] \in SeqRange(avail) /\ test[model_priority[k]] = "text"
         THEN model_priority[k]
         ELSE first_priority_model(k + 1, avail, test)

\* lines 101-110: any available gemini model that supports generateContent;
\* exc = get_model raised, which the outer handler turns into None
RECURSIVE first_fallback_model(_, _, _, _)
first_fallback_model(k, avail, test, meta) ==
    IF k > Len(avail) THEN [exc |-> FALSE, model |-> None]
    ELSE IF ~IsGemini(avail[k])
         THEN first_fallback_model(k + 1, avail, test, meta)
         ELSE IF meta[avail[k]] = "raise" THEN [exc |-> TRUE, model |-> None]
              ELSE IF meta[avail[k]] = "generate" /\ test[avail[k]] = "text"
                   THEN [exc |-> FALSE, model |-> avail[k]]
                   ELSE first_fallback_model(k + 1, avail, test, meta)

select_model(avail, test, meta) ==
    LET p == first_priority_model(1, avail, test)
    IN  IF p # None THEN p
        ELSE first_fallback_model(1, avail, test, meta).model

\* get_best_model(): every [model, avail] it can end with, from avail
get_best_model(avail) ==
    LET listed == IF avail # <<>> THEN {avail} ELSE ModelLists
        found == UNION { { [model |-> select_model(a, test, meta), avail |-> a] :
                             test \in [SeqRange(a) -> TestOutcomes],
                             meta \in [SeqRange(a) -> MetaOutcomes] } :
                         a \in listed }
    IN  found \cup (IF avail = <<>> THEN {[model |-> None, avail |-> avail]} ELSE {})

BestModelTable == [a \in ModelLists |-> get_best_model(a)]

\* setup_gemini(): every [gem, ret] it can end with
setup_gemini(g) ==
    \* genai.configure or genai.list_models raised
    { [gem |-> [configured |-> FALSE, model |-> None, avail |-> g.avail],
       ret |-> FALSE] }
    \cup
    UNION { { [gem |-> [configured |-> b.model # None, model |-> b.model,
                        avail |-> b.avail],
               ret |-> b.model # None] : b \in BestModelTable[a] } :
            a \in ModelLists }

\* the texts the API may answer a plain prompt with
ProseTexts == { <<"OK">>, <<WS, "OK", WS>> }

ProseOutcomes == SafeGenOutcomes(ProseTexts)

\* get_gemini_status(): every [gem, ret] it can end with
get_gemini_status(g) ==
    IF ~g.configured THEN setup_gemini(g)
    ELSE IF g.model # None
         THEN { [gem |-> g, ret |-> r.some /\ Len(Strip(r.text)) > 0] :
                  r \in ProseOutcomes }
         ELSE { [gem |-> g, ret |-> FALSE] }


(***************************************************************************)
(* What the API may answer the quiz prompt with.                           *)
(***************************************************************************)
MaxItems == 2

MaxQuestions == 10

QuestionText(qlit, alit) ==
    << "{", "question:", qlit, "options:", "[", "s:A) Queue", "s:B) Stack", "]",
       "answer:", alit, "}" >>

\* the elements a response list is made of: question objects (the answer a
\* letter, a longer string, a number), an object without the keys, a number,
\* a string that holds the three key names, a plain string
ItemTexts ==
    { QuestionText("s:T1", "s:B"), QuestionText("s:T2", "s:b) stack"),
      QuestionText("s:T1", "7"), << "{", "foo:", "7", "}" >>, << "7" >>,
      << "s:question options answer" >>, << "s:x" >> }

RECURSIVE Flatten(_)
Flatten(seqs) == IF seqs = <<>> THEN <<>> ELSE Head(seqs) \o Flatten(Tail(seqs))

ListTexts ==
    { <<"[">> \o Flatten(items) \o <<"]">> :
        items \in UNION { [1..k -> ItemTexts] : k \in 0..MaxItems } }

BodyTexts == ListTexts \cup ItemTexts

\* a body as it is, fenced, inside prose, padded, or cut short
QuizTexts ==
    BodyTexts
    \cup { <<FenceJson>> \o b \o <<Fence>> : b \in BodyTexts }
    \cup { <<Fence>> \o b \o <<Fence>> : b \in BodyTexts }
    \cup { <<"Here", FenceJson, WS>> \o b \o <<WS, Fence, "Done">> : b \in BodyTexts }
    \cup { <<"Here">> \o b \o <<"Done">> : b \in BodyTexts }
    \cup { <<WS>> \o b \o <<WS>> : b \in BodyTexts }
    \cup { SubSeq(b, 1, Len(b) - 1) : b \in BodyTexts }
    \cup { <<"Sorry">> }

QuizResponses == SafeGenOutcomes(QuizTexts)


(***************************************************************************)
(* The functions of ai_utils that the application calls.  Each gives the   *)
(* set of its possible outcomes                                            *)
(*   [gem, ret, raised, obs]                                               *)
(* where gem is the module state it leaves, ret the value returned (a str  *)
(* is a sequence of tokens), raised tells that an exception left the       *)
(* function, and obs records what the API did during the call:             *)
(*   status  the first get_gemini_status() of the call                     *)
(*   status2 the status check of a nested generate_custom_content          *)
(*   model   get_best_model() gave a model                                 *)
(*   text    safe_generate_content gave a text                             *)
(*   sent    the prompt was sent to a model                                *)
(*   exc     an exception reached the function's handler                   *)
(*   cls     the class of the quiz response (see ResponseClass)            *)
(***************************************************************************)
Obs(status, status2, model, text, sent, exc, cls) ==
    [status |-> status, status2 |-> status2, model |-> model, text |-> text,
     sent |-> sent, exc |-> exc, cls |-> cls]

Outcome(g, ret, raised, obs) ==
    [gem |-> g, ret |-> ret, raised |-> raised, obs |-> obs]

IsQuestionObject(v) ==
    v.t = "obj" /\ \A i \in 1..Len(QuizKeys) : HasKey(v, QuizKeys[i])

\* an element on which the validation loop raises a TypeError
IsRaisingElement(v) ==
    \/ v.t \in {"num", "null"}
    \/ v.t \in {"str", "list"} /\ \A i \in 1..Len(QuizKeys) : KeyIn(QuizKeys[i], v)

\* what kind of answer a quiz response is
ParsedClass(p) ==
    IF ~p.ok THEN "not_json"
    ELSE IF p.v.t # "list" THEN "not_list"
    ELSE IF \A i \in 1..Len(p.v.items) : IsQuestionObject(p.v.items[i])
         THEN "questions"
    ELSE IF \E i \in 1..Len(p.v.items) : IsRaisingElement(p.v.items[i])
         THEN "raising"
    ELSE IF \E i \in 1..Len(p.v.items) : IsQuestionObject(p.v.items[i])
         THEN "mixed"
    ELSE "no_questions"

ResponseClass(r) ==
    IF ~r.some THEN "no_text" ELSE ParsedClass(json_loads(clean_response(r.text)))

\* lines 168-214 for every response the API may give: what is returned, with
\* the kind of response it was
QuizTable ==
    [num_questions \in 1..MaxQuestions |->
        { [q |-> quiz_from_response(r, num_questions), some |-> r.some,
           cls |-> ResponseClass(r)] : r \in QuizResponses }]

\* generate_quiz_for_subject, answers the outcomes of lines 168-214 for the
\* responses the API may give
generate_quiz_from(g, num_questions, answers) ==
    LET fallback == Take(get_fallback_questions, num_questions)
    IN  UNION {
          IF ~s.ret
          THEN { Outcome(s.gem, fallback, FALSE,
                         Obs(FALSE, TRUE, FALSE, FALSE, FALSE, FALSE, "n/a")) }
          ELSE UNION {
                 LET g2 == [s.gem EXCEPT !.avail = b.avail]
                 IN  IF b.model = None
                     THEN { Outcome(g2, fallback, FALSE,
                                    Obs(TRUE, TRUE, FALSE, FALSE, FALSE, FALSE, "n/a")) }
                     ELSE { Outcome(g2, x.q.ret, FALSE,
                                    Obs(TRUE, TRUE, TRUE, x.some, TRUE,
                                        x.q.how = "exception", x.cls)) :
                            x \in answers }
                 : b \in BestModelTable[s.gem.avail] }
          : s \in get_gemini_status(g) }

generate_quiz_for_subject(g, num_questions) ==
    generate_quiz_from(g, num_questions, QuizTable[num_questions])

(***************************************************************************)
(* generate_feedback and get_fallback_feedback                             *)
(***************************************************************************)
\* get_fallback_feedback: exc = ZeroDivisionError at (score / total) * 100
get_fallback_feedback(subject, score, total) ==
    IF total = 0 THEN [exc |-> TRUE, text |-> <<>>]
    ELSE LET band == IF score * 100 >= 80 * total THEN "Outstanding Performance!"
                     ELSE IF score * 100 >= 60 * total THEN "Solid Performance!"
                     ELSE "Learning Opportunity!"
         IN  [exc |-> FALSE, text |-> <<band, "Score:", score, total, "in", subject>>]

\* lines 219-254, the body of the try: exc = an exception left it
feedback_body(s, b, r, subject, score, total) ==
    IF ~s.ret \/ b.model = None THEN get_fallback_feedback(subject, score, total)
    ELSE IF total = 0 THEN [exc |-> TRUE, text |-> <<>>]
    ELSE IF r.some THEN [exc |-> FALSE, text |-> r.text]
    ELSE get_fallback_feedback(subject, score, total)

\* lines 256-258: the handler answers with the fallback feedback
feedback_handler(body, subject, score, total) ==
    IF ~body.exc THEN [exc |-> FALSE, text |-> body.text]
    ELSE get_fallback_feedback(subject, score, total)

generate_feedback(g, subject, score, total) ==
    UNION {
      UNION {
        { LET body == feedback_body(s, b, r, subject, score, total)
              res == feedback_handler(body, subject, score, total)
              g2 == IF s.ret THEN [s.gem EXCEPT !.avail = b.avail] ELSE s.gem
          IN  Outcome(g2, res.text, res.exc,
                      Obs(s.ret, TRUE, s.ret /\ b.model # None,
                          s.ret /\ b.model # None /\ total # 0 /\ r.some,
                          s.ret /\ b.model # None /\ total # 0,
                          body.exc, "n/a")) :
          r \in ProseOutcomes }
        : b \in BestModelTable[s.gem.avail] }
      : s \in get_gemini_status(g) }


(***************************************************************************)
(* generate_custom_content, generate_study_plan, predict_career,           *)
(* analyze_resume_with_ai                                                  *)
(***************************************************************************)
MsgCustomUnavailable == <<"AI service is currently unavailable. Please try again later.">>

MsgCustomNoResponse == <<"Sorry, I couldn't generate a response. Please try again.">>

MsgCustomError == <<"Error generating content">>

MsgStudyUnavailable == <<"AI service unavailable. Cannot generate study plan.">>

MsgStudyError == <<"Unable to generate study plan. Please try again later.">>

MsgCareerUnavailable == <<"AI service unavailable. Cannot generate career prediction.">>

MsgCareerError == <<"Unable to generate career prediction. Please try again later.">>

\* context: "none", "dict", or "bad" (a value without .items(), which raises)
Contexts == {"none", "dict", "bad"}

\* lines 270-276, once a model is there: r is what safe_generate_content gives
\* the same without the "or" that replaces an empty response (line 276)
custom_generate_no_default(context, r) ==
    IF context = "bad" THEN [exc |-> TRUE, text |-> <<>>, sent |-> FALSE]
    ELSE [exc |-> FALSE, sent |-> TRUE, text |-> r.text]

custom_generate(context, r) ==
    IF context = "bad" THEN [exc |-> TRUE, text |-> <<>>, sent |-> FALSE]
    ELSE [exc |-> FALSE, sent |-> TRUE,
          text |-> IF r.some THEN r.text ELSE MsgCustomNoResponse]

generate_custom_content(g, context) ==
    UNION {
      IF ~s.ret
      THEN { Outcome(s.gem, MsgCustomUnavailable, FALSE,
                     Obs(FALSE, TRUE, FALSE, FALSE, FALSE, FALSE, "n/a")) }
      ELSE UNION {
             LET g2 == [s.gem EXCEPT !.avail = b.avail]
             IN  IF b.model = None
                 THEN { Outcome(g2, MsgCustomUnavailable, FALSE,
                                Obs(TRUE, TRUE, FALSE, FALSE, FALSE, FALSE, "n/a")) }
                 ELSE { LET c == custom_generate(context, r)
                        IN  Outcome(g2, IF c.exc THEN MsgCustomError ELSE c.text,
                                    FALSE,
                                    Obs(TRUE, TRUE, TRUE, c.sent /\ r.some, c.sent,
                                        c.exc, "n/a")) :
                        r \in ProseOutcomes }
             : b \in BestModelTable[s.gem.avail] }
      : s \in get_gemini_status(g) }

\* a function that checks the status and then hands its prompt to
\* generate_custom_content (generate_study_plan, predict_career); bad = the
\* building of the prompt raises, which the handler answers with error
via_custom_content(g, unavailable, error, bad) ==
    UNION {
      IF ~s.ret
      THEN { Outcome(s.gem, unavailable, FALSE,
                     Obs(FALSE, TRUE, FALSE, FALSE, FALSE, FALSE, "n/a")) }
      ELSE IF bad
           THEN { Outcome(s.gem, error, FALSE,
                          Obs(TRUE, TRUE, FALSE, FALSE, FALSE, TRUE, "n/a")) }
           ELSE { Outcome(c.gem, c.ret, FALSE,
                          [c.obs EXCEPT !.status = TRUE, !.status2 = c.obs.status]) :
                  c \in generate_custom_content(s.gem, "none") }
      : s \in get_gemini_status(g) }

generate_study_plan(g) ==
    via_custom_content(g, MsgStudyUnavailable, MsgStudyError, FALSE)

\* skills_ok = every element of skills and interests is a str (join works)
predict_career(g, skills_ok) ==
    via_custom_content(g, MsgCareerUnavailable, MsgCareerError, ~skills_ok)

\* dict.get(key, default) of a dict given as a function
Get(d, key, default) == IF key \in DOMAIN d THEN d[key] ELSE default

get_fallback_resume_analysis(student_data) ==
    << "Basic Profile Analysis",
       Get(student_data, "name", "Not specified"),
       Get(student_data, "year", "Not specified"),
       Get(student_data, "cgpa", "Not specified"),
       Get(student_data, "projects", 0),
       Get(student_data, "internships", 0),
       Len(Get(student_data, "certifications", <<>>)),
       Get(student_data, "communication", "Not rated") >>

\* serializable = json.dumps(student_data) works
analyze_resume_with_ai(g, student_data, serializable) ==
    LET fallback == get_fallback_resume_analysis(student_data)
    IN  UNION {
          IF ~s.ret
          THEN { Outcome(s.gem, fallback, FALSE,
                         Obs(FALSE, TRUE, FALSE, FALSE, FALSE, FALSE, "n/a")) }
          ELSE IF ~serializable
               THEN { Outcome(s.gem, fallback, FALSE,
                              Obs(TRUE, TRUE, FALSE, FALSE, FALSE, TRUE, "n/a")) }
               ELSE { Outcome(c.gem, IF c.ret # <<>> THEN c.ret ELSE fallback, FALSE,
                              [c.obs EXCEPT !.status = TRUE, !.status2 = c.obs.status]) :
                      c \in generate_custom_content(s.gem, "none") }
          : s \in get_gemini_status(g) }

(***************************************************************************)
(* The specification of ai_utils: the module is imported (setup_gemini     *)
(* runs), then its functions are called in any order with any arguments.   *)
(* aiLast is the last call: its name, arguments and outcome.               *)
(***************************************************************************)
MaxTotal == 3

Subjects == {"DSA", "DBMS"}

\* student dictionaries: after registration, and with a saved profile (a cgpa
\* is counted in tenths)
StudentDicts ==
    { [name |-> "Asha", year |-> "2nd Year"],
      [name |-> "Asha", year |-> "3rd Year", cgpa |-> 80, certifications |-> <<"SQL">>,
       internships |-> 1, projects |-> 2, communication |-> 7] }

GemUnset == [configured |-> FALSE, model |-> None, avail |-> <<>>]

NoCall == [op |-> "import", args |-> <<>>, ret |-> <<>>, raised |-> FALSE,
           obs |-> Obs(FALSE, TRUE, FALSE, FALSE, FALSE, FALSE, "n/a")]

Call(op, args, o) ==
    /\ UNCHANGED <<mlVars, fbVars, appVars>>
    /\ gem' = o.gem
    /\ aiLast' = [op |-> op, args |-> args, ret |-> o.ret, raised |-> o.raised,
                  obs |-> o.obs]

\* ai_utils after its import
AiImported ==
    /\ gem \in { o.gem : o \in setup_gemini(GemUnset) }
    /\ aiLast = NoCall

GenerateQuiz ==
    \E n \in 1..MaxQuestions :
        \E o \in generate_quiz_for_subject(gem, n) : Call("quiz", <<n>>, o)

GenerateFeedback ==
    \E subject \in Subjects, total \in 0..MaxTotal :
        \E score \in 0..total :
            \E o \in generate_feedback(gem, subject, score, total) :
                Call("feedback", <<subject, score, total>>, o)

GenerateCustomContent ==
    \E context \in Contexts :
        \E o \in generate_custom_content(gem, context) : Call("custom", <<context>>, o)

GenerateStudyPlan ==
    \E o \in generate_study_plan(gem) : Call("study_plan", <<>>, o)

PredictCareer ==
    \E skills_ok \in BOOLEAN :
        \E o \in predict_career(gem, skills_ok) : Call("career", <<skills_ok>>, o)

AnalyzeResume ==
    \E sd \in StudentDicts, serializable \in BOOLEAN :
        \E o \in analyze_resume_with_ai(gem, sd, serializable) :
            Call("resume", <<sd, serializable>>, o)

NextAI ==
    \/ GenerateQuiz
    \/ GenerateFeedback
    \/ GenerateCustomContent
    \/ GenerateStudyPlan
    \/ PredictCareer
    \/ AnalyzeResume



(***************************************************************************)
(* ml_model.py.  predictor is the global _predictor: NoPredictor for None, *)
(* or the EmployabilityPredictor with                                      *)
(*   model     None, "unfitted" (created on line 88, fit not done) or      *)
(*             "fitted"                                                    *)
(*   scaler    fitted or not                                               *)
(*   encoders  label_encoders holds the encoder of 'year'                  *)
(*   explainer None or "shap"                                              *)
(* modelFile is employability_model.joblib: "absent", "corrupt" or "good". *)
(* mlStats counts the predictors created, the calls of train_model, the    *)
(* saves and the loads that succeeded.                                     *)
(***************************************************************************)
NoPredictor ==
    [created |-> FALSE, model |-> None, scaler |-> FALSE, encoders |-> FALSE,
     explainer |-> None]

\* EmployabilityPredictor()
NewPredictor ==
    [created |-> TRUE, model |-> None, scaler |-> FALSE, encoders |-> FALSE,
     explainer |-> None]

FittedPredictor ==
    [created |-> TRUE, model |-> "fitted", scaler |-> TRUE, encoders |-> TRUE,
     explainer |-> "shap"]

\* the model file: there is none, it cannot be read, it holds a model but
\* not the other entries, or it is what save_model wrote
ModelFiles == {"absent", "corrupt", "partial", "good"}

\* load_model: [ok, predictor]
load_model(p, file) ==
    CASE file = "good" -> [ok |-> TRUE, predictor |-> FittedPredictor]
      [] file = "partial" -> [ok |-> FALSE, predictor |-> [p EXCEPT !.model = "fitted"]]
      [] OTHER -> [ok |-> FALSE, predictor |-> p]

\* where train_model may stop: it ends, or an exception leaves it before the
\* data is preprocessed (79), before the scaler is fitted (85), before the
\* model is created (88), in fit (97), in shap.TreeExplainer (101) or in the
\* evaluation (104-108)
TrainStops == {"done", "data", "scale", "create", "fit", "explain", "evaluate"}

train_model(p, stop) ==
    CASE stop = "data" -> p
      [] stop = "scale" -> [p EXCEPT !.encoders = TRUE]
      [] stop = "create" -> [p EXCEPT !.encoders = TRUE, !.scaler = TRUE]
      [] stop = "fit" -> [p EXCEPT !.encoders = TRUE, !.scaler = TRUE,
                                   !.model = "unfitted"]
      [] stop = "explain" -> [p EXCEPT !.encoders = TRUE, !.scaler = TRUE,
                                       !.model = "fitted"]
      [] stop \in {"evaluate", "done"} -> FittedPredictor

\* get_predictor(): every outcome from this predictor and file.  error =
\* the exception that leaves get_predictor, or None.
get_predictor(p, file, stats) ==
    IF p.created
    THEN { [predictor |-> p, file |-> file, stats |-> stats, error |-> None] }
    ELSE LET created == [stats EXCEPT !.created = @ + 1]
             loaded == load_model(NewPredictor, file)
         IN  IF loaded.ok
             THEN { [predictor |-> loaded.predictor, file |-> file,
                     stats |-> [created EXCEPT !.loaded = @ + 1], error |-> None] }
             ELSE LET st == [created EXCEPT !.trained = @ + 1]
                  IN  { [predictor |-> train_model(loaded.predictor, stop),
                         file |-> file, stats |-> st, error |-> "train_model raised"] :
                        stop \in TrainStops \ {"done"} }
                      \cup
                      \* save_model: joblib.dump writes the file, or raises
                      { [predictor |-> FittedPredictor, file |-> "good",
                         stats |-> [st EXCEPT !.saved = @ + 1], error |-> None],
                        [predictor |-> FittedPredictor, file |-> file,
                         stats |-> st, error |-> "save_model raised"] }

\* the classes of the year encoder after training, in their order
YearClasses == <<"1st Year", "2nd Year", "3rd Year", "4th Year">>

IndexOf(seq, x) == CHOOSE i \in 1..Len(seq) : seq[i] = x

Min(a, b) == IF a < b THEN a ELSE b

Max(a, b) == IF a > b THEN a ELSE b

\* extract_features_from_student: cgpa (in tenths), internships, projects,
\* certification_count, communication_skills, year_encoded, extracurricular
extract_features_from_student(student_data) ==
    LET internships == Get(student_data, "internships", 0)
        certification_count == Len(Get(student_data, "certifications", <<>>))
        year == Get(student_data, "year", "1st Year")
    IN  << Get(student_data, "cgpa", 65),
           internships,
           Get(student_data, "projects", 0),
           certification_count,
           Get(student_data, "communication", 6),
           IF year \in SeqRange(YearClasses) THEN IndexOf(YearClasses, year) - 1 ELSE 0,
           Min(10, certification_count + internships) >>

\* what the regressor may predict for a student
RawPredictions == {-3, 0, 42, 100, 104}

\* the same without the clamp of line 121
clamp_prediction_missing(prediction) == prediction

\* line 121
clamp_prediction(prediction) == Max(0, Min(100, prediction))

MsgNotTrained == "ValueError: Model not trained. Call train_model() first."

\* predict, the model answering raw: [self, error, ret, features, raw], ret
\* being <<the value returned>> and <<>> when predict raises
predict(p, student_data, raw) ==
    IF p.model = None
    THEN [self |-> p, error |-> MsgNotTrained, ret |-> <<>>, features |-> <<>>,
          raw |-> raw]
    ELSE IF ~p.encoders
    THEN [self |-> p, error |-> "KeyError: 'year'", ret |-> <<>>, features |-> <<>>,
          raw |-> raw]
    ELSE IF ~p.scaler \/ p.model # "fitted"
    THEN [self |-> p, error |-> "NotFittedError", ret |-> <<>>,
          features |-> extract_features_from_student(student_data), raw |-> raw]
    ELSE [self |-> p, error |-> None, ret |-> <<clamp_prediction(raw)>>,
          features |-> extract_features_from_student(student_data), raw |-> raw]

\* explain_prediction: <<the figure>>, or <<None>>
explain_prediction(p, shap_ok) ==
    IF p.model = None \/ p.explainer = None THEN <<None>>
    ELSE IF p.encoders /\ p.scaler /\ p.model = "fitted" /\ shap_ok THEN <<"figure">>
    ELSE <<None>>

\* the truth value of the value v of the key k of a student dictionary
Truthy(k, v) ==
    CASE k \in {"cgpa", "internships", "projects", "communication"} -> v # 0
      [] k \in {"certifications", "subjects"} -> v # <<>>
      [] OTHER -> v # ""

\* the confidence factors of generate_confidence_analysis
confidence_factors(student_data) ==
    [completeness |-> Min(100, Cardinality({k \in DOMAIN student_data :
                                              Truthy(k, student_data[k])}) * 15),
     academic |-> Min(100, Get(student_data, "cgpa", 0)),
     practical |-> Min(100, (Get(student_data, "internships", 0)
                             + Get(student_data, "projects", 0)) * 10),
     diversity |-> Min(100, Len(Get(student_data, "certifications", <<>>)) * 20)]

\* the student dictionaries the predictor is asked about: empty, as
\* registered, a saved profile, a year the encoder has not seen
MlStudents ==
    { [x \in {} |-> 0] } \cup StudentDicts \cup
    { [year |-> "5th Year", cgpa |-> 91, internships |-> 9,
       certifications |-> <<"SQL", "AWS", "ML">>, communication |-> 10] }

MlAtRest ==
    /\ predictor = NoPredictor
    /\ mlStats = [created |-> 0, trained |-> 0, saved |-> 0, loaded |-> 0]
    /\ mlLast = [op |-> "import", student |-> <<>>, error |-> None, ret |-> <<>>,
                 features |-> <<>>, raw |-> 0, global |-> NoPredictor,
                 self |-> NoPredictor, reached |-> FALSE]

\* a call of a function of the module: get_predictor, then the method on
\* the predictor it returned unless get_predictor raised.  mlLast keeps the
\* global before the call, the predictor the method was called on and
\* whether the method was reached.
MlCall(op, student_data, g, res) ==
    /\ UNCHANGED <<aiVars, fbVars, appVars>>
    /\ predictor' = IF g.error = None THEN res.self ELSE g.predictor
    /\ modelFile' = g.file
    /\ mlStats' = g.stats
    /\ mlLast' = [op |-> op, student |-> student_data,
                  error |-> IF g.error # None THEN g.error ELSE res.error,
                  ret |-> IF g.error # None THEN <<>> ELSE res.ret,
                  features |-> IF g.error # None THEN <<>> ELSE res.features,
                  raw |-> res.raw, global |-> predictor, self |-> g.predictor,
                  reached |-> g.error = None]

PredictEmployability ==
    \E sd \in MlStudents, raw \in RawPredictions :
        \E g \in get_predictor(predictor, modelFile, mlStats) :
            MlCall("predict_employability", sd, g,
                   predict(g.predictor, sd, raw))

ExplainEmployability ==
    \E sd \in MlStudents, shap_ok \in BOOLEAN :
        \E g \in get_predictor(predictor, modelFile, mlStats) :
            MlCall("explain_employability", sd, g,
                   [self |-> g.predictor, error |-> None,
                    ret |-> explain_prediction(g.predictor, shap_ok),
                    features |-> <<>>, raw |-> 0])

GetConfidenceAnalysis ==
    \E sd \in MlStudents, raw \in RawPredictions :
        \E g \in get_predictor(predictor, modelFile, mlStats) :
            LET r == predict(g.predictor, sd, raw)
            IN  MlCall("get_confidence_analysis", sd, g,
                       [r EXCEPT !.ret = IF r.error = None
                                         THEN <<r.ret[1], confidence_factors(sd)>>
                                         ELSE <<>>])

NextML ==
    \/ PredictEmployability
    \/ ExplainEmployability
    \/ GetConfidenceAnalysis


(***************************************************************************)
(* firebase_helper.py.  fb is what the module and the Firebase project     *)
(* hold:                                                                   *)
(*   db        the global _db: None or the Firestore client                *)
(*   apps      firebase_admin._apps is not empty                           *)
(*   users     the e-mails of the accounts of Firebase Auth                *)
(*   students, placement_officers   the collections, e-mail -> document    *)
(*   quiz_results, quiz_questions   the collections, in the order of the   *)
(*                                  writes                                 *)
(*   clock     the time utcnow() gives, a tick for every document written  *)
(* A document and a dict are functions from keys to values.  What the      *)
(* outside does during one call is an environment: the key file, whether   *)
(* firestore.client() returns, whether the requests to Firestore and to    *)
(* Firebase Auth succeed.                                                  *)
(***************************************************************************)
EmptyDict == [k \in {} |-> 0]

FbEnv(key, client, firestore, auth) ==
    [key |-> key, client |-> client, firestore |-> firestore, auth |-> auth]

FbEnvs ==
    { FbEnv("missing", FALSE, FALSE, TRUE),
      FbEnv("invalid", FALSE, FALSE, FALSE),
      FbEnv("valid", FALSE, FALSE, TRUE),
      FbEnv("valid", FALSE, FALSE, FALSE),
      FbEnv("valid", TRUE, TRUE, TRUE),
      FbEnv("valid", TRUE, FALSE, TRUE),
      FbEnv("valid", TRUE, TRUE, FALSE) }

FbNew ==
    [db |-> None, apps |-> FALSE, users |-> {}, students |-> EmptyDict,
     placement_officers |-> EmptyDict, quiz_results |-> <<>>,
     quiz_questions |-> <<>>, clock |-> 0]

\* what Firebase holds, the module's globals left out
Stored(f) ==
    [users |-> f.users, students |-> f.students,
     placement_officers |-> f.placement_officers,
     quiz_results |-> f.quiz_results, quiz_questions |-> f.quiz_questions]

\* setup_firebase(): fb after it; it returns the _db of that fb
setup_firebase(f, env) ==
    IF f.db # None THEN f
    ELSE IF env.key = "missing" THEN f
    ELSE IF ~f.apps /\ env.key = "invalid" THEN f
    ELSE IF ~env.client THEN [f EXCEPT !.apps = TRUE]
    ELSE [f EXCEPT !.apps = TRUE, !.db = "client"]

\* 'if _db is None: setup_firebase()'
ensure_db(f, env) == IF f.db = None THEN setup_firebase(f, env) ELSE f

\* a request through _db: _db is None (AttributeError) or the request fails
DbFails(f, env) == f.db = None \/ ~env.firestore

\* auth.create_user(email=...): [ok, fb]
auth_create_user(f, env, email) ==
    IF ~f.apps \/ ~env.auth \/ email \in f.users
    THEN [ok |-> FALSE, fb |-> f]
    ELSE [ok |-> TRUE, fb |-> [f EXCEPT !.users = @ \cup {email}]]

\* document(id).set(data) and set(data, merge=True) on a collection
SetDoc(coll, id, data) ==
    [e \in DOMAIN coll \cup {id} |-> IF e = id THEN data ELSE coll[e]]

\* set(data, merge=True) that would keep a field the document already has
MergeDict_keep_old(old, data) ==
    [k \in DOMAIN old \cup DOMAIN data |-> IF k \in DOMAIN old THEN old[k] ELSE data[k]]

MergeDict(old, data) ==
    [k \in DOMAIN old \cup DOMAIN data |-> IF k \in DOMAIN data THEN data[k] ELSE old[k]]

\* set(data) without merge=True: the document becomes the data passed
MergeDoc_replace(coll, id, data) == SetDoc(coll, id, data)

MergeDoc(coll, id, data) ==
    SetDoc(coll, id, IF id \in DOMAIN coll THEN MergeDict(coll[id], data) ELSE data)

Tick(f) == [f EXCEPT !.clock = @ + 1]

\* the value a call returns: [fb, ret, raised]
FbOutcome(f, ret, raised) == [fb |-> f, ret |-> ret, raised |-> raised]

year_subjects(year) ==
    CASE year = "1st Year" ->
            << "Python for Beginners", "C Programming", "Electronics Basics",
               "Electrical Engg", "Nanotech", "Intro to DSA", "Simple Java" >>
      [] year = "2nd Year" ->
            << "Operating System", "DSA", "Java OOPs", "AI", "ADA", "DBMS", "MongoDB" >>
      [] year = "3rd Year" ->
            << "SEPM", "EDA", "Python Advanced", "Java Complex", "Computer Networks" >>
      [] year = "4th Year" ->
            << "Blockchain", "Cybersecurity", "Data Privacy", "Data Visualization", "DBMS" >>
      [] OTHER -> <<>>

\* 'name.strip() if name.strip() else default'
display_name_of(name, default) == IF Strip(name) # <<>> THEN Strip(name) ELSE default

create_student(f0, env, email, password, name, year) ==
    LET f == ensure_db(f0, env)
    IN  IF f.db = None THEN FbOutcome(f, FALSE, FALSE)
        ELSE LET u == auth_create_user(f, env, email)
                 data == [email |-> email,
                          name |-> display_name_of(name, <<"Student User">>),
                          year |-> year, subjects |-> year_subjects(year),
                          role |-> "Student", created_at |-> f.clock]
             IN  IF ~u.ok \/ DbFails(u.fb, env) THEN FbOutcome(u.fb, FALSE, FALSE)
                 ELSE FbOutcome(Tick([u.fb EXCEPT !.students = SetDoc(@, email, data)]),
                                TRUE, FALSE)

save_student_data(f0, env, email, data) ==
    LET f == ensure_db(f0, env)
    IN  IF DbFails(f, env) THEN FbOutcome(f, FALSE, FALSE)
        ELSE FbOutcome(Tick([f EXCEPT !.students = MergeDoc(@, email, data)]),
                       TRUE, FALSE)

\* the documents of a collection keyed by e-mail, as a list
RECURSIVE DocsOf(_, _)
DocsOf(coll, ids) ==
    IF ids = {} THEN <<>>
    ELSE LET id == CHOOSE e \in ids : TRUE
         IN  <<coll[id]>> \o DocsOf(coll, ids \ {id})

fetch_all_students(f0, env) ==
    LET f == ensure_db(f0, env)
    IN  IF DbFails(f, env) THEN FbOutcome(f, <<>>, FALSE)
        ELSE FbOutcome(f, DocsOf(f.students, DOMAIN f.students), FALSE)

\* a dict or None: [some, v]
NoneDict == [some |-> FALSE, v |-> EmptyDict]

SomeDict(d) == [some |-> TRUE, v |-> d]

get_student(f0, env, email) ==
    LET f == ensure_db(f0, env)
    IN  IF DbFails(f, env) THEN FbOutcome(f, NoneDict, FALSE)
        ELSE FbOutcome(f, IF email \in DOMAIN f.students
                          THEN SomeDict(f.students[email]) ELSE NoneDict, FALSE)


save_quiz_question(f0, env, question_doc) ==
    LET f == ensure_db(f0, env)
    IN  IF DbFails(f, env) THEN FbOutcome(f, FALSE, FALSE)
        ELSE FbOutcome(Tick([f EXCEPT !.quiz_questions = Append(@, question_doc)]),
                       TRUE, FALSE)

\* (score / total) * 100, kept as the fraction score * 100 / total
Percentage(score, total) == [num |-> score * 100, den |-> total]

save_quiz_result(f0, env, email, subject, score, total, details) ==
    LET f == ensure_db(f0, env)
    IN  IF total = 0 THEN FbOutcome(f, FALSE, FALSE)      \* ZeroDivisionError
        ELSE LET payload == [email |-> email, subject |-> subject, score |-> score,
                             total |-> total,
                             percentage |-> Percentage(score, total),
                             details |-> details, timestamp |-> f.clock]
             IN  IF DbFails(f, env) THEN FbOutcome(f, FALSE, FALSE)
                 ELSE FbOutcome(Tick([f EXCEPT !.quiz_results = Append(@, payload)]),
                                TRUE, FALSE)

\* list.sort(key=timestamp, reverse=True): stable, the later first
RECURSIVE InsertByTimestamp(_, _)
InsertByTimestamp(sorted, d) ==
    IF sorted = <<>> THEN <<d>>
    ELSE IF Head(sorted).timestamp < d.timestamp THEN <<d>> \o sorted
    ELSE <<Head(sorted)>> \o InsertByTimestamp(Tail(sorted), d)

RECURSIVE SortByTimestamp(_, _)
SortByTimestamp(docs, acc) ==
    IF docs = <<>> THEN acc
    ELSE SortByTimestamp(Tail(docs), InsertByTimestamp(acc, Head(docs)))

fetch_student_quiz_results(f0, env, email) ==
    LET f == ensure_db(f0, env)
    IN  IF DbFails(f, env) THEN FbOutcome(f, <<>>, FALSE)
        ELSE FbOutcome(f, SortByTimestamp(SelectSeq(f.quiz_results,
                                                    LAMBDA d : d.email = email), <<>>),
                       FALSE)

fetch_quiz_results(f0, env) ==
    LET f == ensure_db(f0, env)
    IN  IF DbFails(f, env) THEN FbOutcome(f, <<>>, FALSE)
        ELSE FbOutcome(f, f.quiz_results, FALSE)

\* role.lower()
Lower(role) ==
    CASE role = "Student" -> "student"
      [] role = "Placement Officer" -> "placement officer"
      [] role = "Admin" -> "admin"
      [] OTHER -> role

MsgStudentRegistered == "Student registered successfully."

MsgStudentFailed == "Failed to register student."

MsgOfficerRegistered == "Placement Officer registered successfully."

MsgInvalidRole == "Invalid role specified."

MsgRegistrationFailed == "Registration failed"

\* lines 229-240: the branch of register_user for a placement officer
register_officer(f, env, email, password, name) ==
    LET u == auth_create_user(f, env, email)
        data == [email |-> email,
                 name |-> display_name_of(name, <<"Placement Officer">>),
                 role |-> "Placement Officer", created_at |-> f.clock]
    IN  IF ~u.ok \/ DbFails(u.fb, env)
        THEN FbOutcome(u.fb, <<FALSE, MsgRegistrationFailed>>, FALSE)
        ELSE FbOutcome(Tick([u.fb EXCEPT !.placement_officers = SetDoc(@, email, data)]),
                       <<TRUE, MsgOfficerRegistered>>, FALSE)

register_user(f0, env, email, password, role, name, year) ==
    LET f == ensure_db(f0, env)
    IN  IF Lower(role) = "student"
        THEN LET c == create_student(f, env, email, password, name, year)
             IN  FbOutcome(c.fb, IF c.ret THEN <<TRUE, MsgStudentRegistered>>
                                 ELSE <<FALSE, MsgStudentFailed>>, FALSE)
        ELSE IF Lower(role) \in {"placement officer", "officer", "admin"}
        THEN register_officer(f, env, email, password, name)
        ELSE FbOutcome(f, <<FALSE, MsgInvalidRole>>, FALSE)

login_user(f0, env, email) ==
    LET f == ensure_db(f0, env)
    IN  IF DbFails(f, env) THEN FbOutcome(f, NoneDict, FALSE)
        ELSE IF email \in DOMAIN f.students
        THEN FbOutcome(f, SomeDict(MergeDict(f.students[email], [role |-> "Student"])),
                       FALSE)
        ELSE IF email \in DOMAIN f.placement_officers
        THEN FbOutcome(f, SomeDict(MergeDict(f.placement_officers[email],
                                             [role |-> "Placement Officer"])), FALSE)
        ELSE FbOutcome(f, NoneDict, FALSE)


(***************************************************************************)
(* The calls of firebase_helper.  fbLast keeps the last call: its name,    *)
(* what it returned, whether it raised, whether _db was None when it       *)
(* returned and whether it changed what Firebase holds.                    *)
(***************************************************************************)
MaxClock == 2

FbEmails == { <<"a@x">>, <<"b@x">> }

\* name and year of a student who registers
FbStudents == { << <<"Asha">>, "2nd Year" >>, << <<" ">>, "" >> }

FbRoles == {"Student", "Placement Officer", "Guest"}

\* the dicts save_student_data is given
FbData == { [cgpa |-> 80], [name |-> <<"Riya">>, year |-> "3rd Year"] }

\* score and total of a quiz
FbScores == { <<0, 0>>, <<1, 2>> }

FbNoCall ==
    [op |-> "import", ret |-> FALSE, raised |-> FALSE, dbNone |-> TRUE, wrote |-> FALSE]

\* firebase_helper at rest: nothing initialised, nothing stored
FbAtRest == fb = FbNew /\ fbLast = FbNoCall

\* firebase_helper after its import, setup_firebase() called once
FbImported ==
    /\ fb \in { setup_firebase(FbNew, env) : env \in FbEnvs }
    /\ fbLast = FbNoCall

FbCall(op, o) ==
    /\ o.fb.clock <= MaxClock
    /\ fb' = o.fb
    /\ fbLast' = [op |-> op, ret |-> o.ret, raised |-> o.raised,
                  dbNone |-> o.fb.db = None, wrote |-> Stored(o.fb) # Stored(fb)]
    /\ UNCHANGED <<aiVars, mlVars, appVars>>

CreateStudent ==
    \E env \in FbEnvs, email \in FbEmails, st \in FbStudents :
        FbCall("create_student", create_student(fb, env, email, "secret", st[1], st[2]))

SaveStudentData ==
    \E env \in FbEnvs, email \in FbEmails, data \in FbData :
        FbCall("save_student_data", save_student_data(fb, env, email, data))

FetchAllStudents ==
    \E env \in FbEnvs : FbCall("fetch_all_students", fetch_all_students(fb, env))

GetStudent ==
    \E env \in FbEnvs, email \in FbEmails :
        FbCall("get_student", get_student(fb, env, email))

SaveQuizQuestion ==
    \E env \in FbEnvs :
        FbCall("save_quiz_question",
               save_quiz_question(fb, env, Head(get_fallback_questions)))

SaveQuizResult ==
    \E env \in FbEnvs, email \in FbEmails, st \in FbScores :
        FbCall("save_quiz_result",
               save_quiz_result(fb, env, email, "DSA", st[1], st[2],
                                [incorrect_count |-> st[2] - st[1]]))

FetchStudentQuizResults ==
    \E env \in FbEnvs, email \in FbEmails :
        FbCall("fetch_student_quiz_results", fetch_student_quiz_results(fb, env, email))

FetchQuizResults ==
    \E env \in FbEnvs : FbCall("fetch_quiz_results", fetch_quiz_results(fb, env))

RegisterUser ==
    \E env \in FbEnvs, email \in FbEmails, role \in FbRoles :
        FbCall("register_user",
               register_user(fb, env, email, "secret", role, <<" ", "Asha">>,
                             IF role = "Student" THEN "2nd Year" ELSE ""))

LoginUser ==
    \E env \in FbEnvs, email \in FbEmails :
        FbCall("login_user", login_user(fb, env, email))

NextFB ==
    \/ CreateStudent
    \/ SaveStudentData
    \/ FetchAllStudents
    \/ GetStudent
    \/ SaveQuizQuestion
    \/ SaveQuizResult
    \/ FetchStudentQuizResults
    \/ FetchQuizResults
    \/ RegisterUser
    \/ LoginUser


(***************************************************************************)
(* streamlit_app.py.  One step of the app is one interaction of the user   *)
(* and the runs of the script it causes: the script runs from the top,     *)
(* the handler of the button that was pressed runs where the button is     *)
(* rendered, and st.rerun() starts the script again with no button         *)
(* pressed.  A run is computed on a record                                 *)
(*   ss, keys   st.session_state: the values, and the keys that are in it  *)
(*   gem, fb    the state of ai_utils and of firebase_helper               *)
(*   radio      the option selected in each radio of the quiz form (0 for  *)
(*              none), <<>> when the form is not on the page               *)
(*   view, msg  what the Smart Quiz tab shows and the message of the       *)
(*              handler                                                    *)
(***************************************************************************)
NoneList == [some |-> FALSE, v |-> <<>>]

\* 'not d' of a dict
IsEmpty(d) == DOMAIN d = {}

SomeList(l) == [some |-> TRUE, v |-> l]

QuizKeyNames ==
    {"current_quiz_data", "current_quiz_subject", "current_quiz_difficulty",
     "quiz_answers", "quiz_submitted", "quiz_score", "quiz_total",
     "incorrect_questions", "show_feedback"}

\* init_session: the defaults
defaults ==
    [logged_in |-> FALSE, role |-> None, username |-> <<>>,
     student_data |-> EmptyDict, current_quiz_data |-> NoneList,
     current_quiz_subject |-> None, current_quiz_difficulty |-> None,
     current_year |-> None, current_subjects |-> <<>>, dark_mode |-> TRUE,
     quiz_answers |-> EmptyDict, quiz_submitted |-> FALSE, quiz_score |-> 0,
     quiz_total |-> 0, incorrect_questions |-> <<>>, show_feedback |-> FALSE,
     gemini_available |-> FALSE]

\* the keys the pages add to the session: the generated texts and the
\* employability score
CareerKeyNames ==
    {"job_analysis", "career_prediction", "study_plan", "resume_analysis", "ml_score"}

\* ss when no key is in the session: a key that is not in the session holds
\* its default in ss, or None when init_session has no default for it
NoSession ==
    [k \in DOMAIN defaults \cup CareerKeyNames |->
        IF k \in DOMAIN defaults THEN defaults[k] ELSE None]

init_session(a) ==
    [a EXCEPT !.ss = [k \in DOMAIN a.ss |->
                         IF k \in a.keys THEN a.ss[k] ELSE NoSession[k]],
              !.keys = a.keys \cup DOMAIN defaults]

\* 'del st.session_state[key]' for the keys given
DelKeys(a, ks) ==
    [a EXCEPT !.keys = a.keys \ ks,
              !.ss = [k \in DOMAIN a.ss |-> IF k \in ks THEN NoSession[k] ELSE a.ss[k]]]

\* 'st.session_state.<key> = value' of a key the pages add
SetKeyOf(a, key, value) ==
    [a EXCEPT !.ss = [k \in DOMAIN a.ss |-> IF k = key THEN value ELSE a.ss[k]],
              !.keys = a.keys \cup {key}]

\* reset_quiz_session with 'current_subjects' among keys_to_clear
reset_quiz_session_and_subjects(a) ==
    DelKeys(a, QuizKeyNames \cup {"current_subjects"})

reset_quiz_session(a) == DelKeys(a, QuizKeyNames)

\* the Gemini service as the app meets it: configured at the import, with
\* the one model it lists; a request may still fail
AppGems ==
    { o.gem : o \in { x \in setup_gemini(GemUnset) :
                        x.ret /\ x.gem.avail = << "models/gemini-1.5-flash" >> } }

\* env.gemini: whether the API answers the status checks of this run
check_gemini_availability(a, env) ==
    { [a EXCEPT !.gem = o.gem, !.ss.gemini_available = o.ret] :
        o \in { x \in get_gemini_status(a.gem) : x.ret = env.gemini } }

\* the sidebar without its buttons
sidebar(a, env) == check_gemini_availability(a, env)

\* the Dark Mode toggle was switched: the handler, st.rerun() follows
toggle_dark_mode(a) == [a EXCEPT !.ss.dark_mode = ~a.ss.dark_mode]

\* a Logout handler that deletes the keys of init_session only
logout_defaults_only(a) == DelKeys(a, DOMAIN defaults)

\* the Logout button: the handler, st.rerun() follows
logout(a) == DelKeys(a, a.keys)

(***************************************************************************)
(* login_register_page                                                     *)
(***************************************************************************)
MsgCredentialsRequired == "Email and password are required"

MsgEnterEmail == "Enter your email"

MsgLoginSuccessful == "Login successful!"

MsgAccountNotFound == "Account not found. Please register first."

\* lines 354-357: the message of register_user is shown
registered(a, o) == [a EXCEPT !.fb = o.fb, !.msg = o.ret[2]]

\* Register Account pressed; no rerun
register_account(a, env, reg) ==
    IF reg.email = <<>> \/ reg.password = <<>>
    THEN [a EXCEPT !.msg = MsgCredentialsRequired]
    ELSE registered(a, register_user(a.fb, env, Strip(reg.email),
                                     Strip(reg.password), reg.role, reg.name,
                                     IF reg.role = "Student" THEN reg.year ELSE ""))

\* lines 370-377: the session of the user who was found
login_session(a, email, role, student_data) ==
    [a EXCEPT !.msg = MsgLoginSuccessful,
              !.ss.logged_in = TRUE,
              !.ss.username = email,
              !.ss.role = role,
              !.ss.student_data = student_data,
              !.ss.current_year =
                  IF role = "Student" /\ ~IsEmpty(student_data)
                  THEN Get(student_data, "year", None) ELSE @,
              !.ss.current_subjects =
                  IF role = "Student" /\ ~IsEmpty(student_data)
                  THEN Get(student_data, "subjects", <<>>) ELSE @]

\* line 372: student_data = fb.get_student(email) or {}
login_student(a, email, role, student) ==
    login_session([a EXCEPT !.fb = student.fb], email, role,
                  IF student.ret.some THEN student.ret.v ELSE EmptyDict)

\* lines 368-382, user what fb.login_user(email) gave; env is Firebase when
\* fb.get_student is called
login_found(a, env, email, user) ==
    IF ~user.ret.some
    THEN [a |-> [a EXCEPT !.fb = user.fb, !.msg = MsgAccountNotFound],
          rerun |-> FALSE]
    ELSE [a |-> login_student(a, email, user.ret.v.role,
                              get_student(user.fb, env, email)),
          rerun |-> TRUE]

\* Login pressed: [a, rerun].  The handler sends two requests; student_env
\* is Firebase at the second
login(a, env, login_email, student_env) ==
    IF login_email = <<>>
    THEN [a |-> [a EXCEPT !.msg = MsgEnterEmail], rerun |-> FALSE]
    ELSE login_found(a, student_env, Strip(login_email),
                     login_user(a.fb, env, Strip(login_email)))

(***************************************************************************)
(* student_profile_page                                                    *)
(***************************************************************************)
MsgProfileSaved == "Profile saved successfully!"

MsgProfileFailed == "Failed to save profile"

\* the table of the profile page
profile_year_subjects(year) ==
    CASE year = "1st Year" ->
            << "Python for Beginners", "C Programming", "Electronics Basics",
               "Electrical Engg", "Nanotech", "Intro to DSA", "Simple Java" >>
      [] year = "2nd Year" ->
            << "Operating System", "DSA", "Java OOPs", "AI", "ADA", "DBMS", "MongoDB" >>
      [] year = "3rd Year" ->
            << "SEPM", "EDA", "Python Advanced", "Java Complex", "Computer Networks" >>
      [] year = "4th Year" ->
            << "Blockchain", "Cybersecurity", "Data Privacy", "Data Visualization", "DBMS" >>
      [] OTHER -> <<>>

\* [c.strip() for c in certs.split("\n") if c.strip()], certs given by its lines
RECURSIVE strip_lines(_)
strip_lines(lines) ==
    IF lines = <<>> THEN <<>>
    ELSE (IF Strip(Head(lines)) # <<>> THEN << Strip(Head(lines)) >> ELSE <<>>)
         \o strip_lines(Tail(lines))

\* the profile dict of lines 420-441, w the values of the widgets
profile_of(w, now) ==
    [name |-> w.name, year |-> w.year, cgpa |-> w.cgpa,
     certifications |-> strip_lines(w.certs), internships |-> w.internships,
     projects |-> w.projects, communication |-> w.comm_skills,
     target_companies |-> w.target_companies, dream_role |-> w.dream_role,
     updated_at |-> now, subjects |-> profile_year_subjects(w.year)]

\* Save Profile pressed; no rerun
profile_saved(a, profile, o) ==
    IF o.ret
    THEN [a EXCEPT !.fb = o.fb, !.msg = MsgProfileSaved,
                   !.ss.student_data = profile,
                   !.ss.current_year = profile.year,
                   !.ss.current_subjects = profile.subjects]
    ELSE [a EXCEPT !.fb = o.fb, !.msg = MsgProfileFailed]

save_profile_dict(a, env, profile) ==
    profile_saved(a, profile, save_student_data(a.fb, env, a.ss.username, profile))

save_profile(a, env, w) == save_profile_dict(a, env, profile_of(w, a.fb.clock))

(***************************************************************************)
(* The buttons that store a generated text in the session.  env.gemini     *)
(* tells whether the API answers the requests of this run: the status      *)
(* checks and the prompts.                                                 *)
(***************************************************************************)
MsgAnalysisComplete == "Analysis complete!"

MsgAnalysisUnavailable == "AI analysis unavailable"

MsgStudyPlanGenerated == "Study plan generated!"

MsgStudyPlanUnavailable == "AI study plan unavailable"

MsgCareerComplete == "Career analysis complete!"

MsgCareerSuggestionsUnavailable == "AI career suggestions unavailable"

MsgPredictionComplete == "Prediction complete!"

\* what a function of ai_utils gives the app: every [gem, text]
app_texts(outcomes, env) ==
    { [gem |-> o.gem, text |-> o.ret] :
        o \in { x \in outcomes :
                  /\ x.gem \in AppGems
                  /\ IF env.gemini THEN x.obs.text ELSE ~x.obs.status } }

\* 'st.session_state.<key> = text' after a call of ai_utils
text_stored(a, key, made, msg) ==
    { [SetKeyOf(a, key, m.text) EXCEPT !.gem = m.gem, !.msg = msg] : m \in made }

\* lines 452-459: AI Resume Analysis pressed
ai_resume_analysis(a, env) ==
    IF ~a.ss.gemini_available THEN { [a EXCEPT !.msg = MsgAnalysisUnavailable] }
    ELSE text_stored(a, "resume_analysis",
                     app_texts(analyze_resume_with_ai(a.gem, a.ss.student_data, TRUE),
                               env),
                     MsgAnalysisComplete)

\* the buttons of the Profile tab
student_profile_page(a, env, click, inp) ==
    CASE click = "save_profile" -> { save_profile(a, env, inp) }
      [] click = "ai_resume_analysis" -> ai_resume_analysis(a, env)
      [] OTHER -> {a}

(***************************************************************************)
(* student_dashboard_page and officer_dashboard_page                       *)
(***************************************************************************)
\* lines 530-537: Generate AI Study Plan pressed
gen_study_plan(a, env) ==
    IF ~a.ss.gemini_available THEN { [a EXCEPT !.msg = MsgStudyPlanUnavailable] }
    ELSE text_stored(a, "study_plan", app_texts(generate_study_plan(a.gem), env),
                     MsgStudyPlanGenerated)

\* lines 540-549: Get Career Suggestions pressed
get_career_suggestions(a, env) ==
    IF ~a.ss.gemini_available
    THEN { [a EXCEPT !.msg = MsgCareerSuggestionsUnavailable] }
    ELSE text_stored(a, "career_prediction",
                     app_texts(predict_career(a.gem, TRUE), env), MsgCareerComplete)

\* lines 520-549, once the results are fetched
dashboard_buttons(a, env, click) ==
    CASE click = "gen_study_plan" -> gen_study_plan(a, env)
      [] click = "get_career_suggestions" -> get_career_suggestions(a, env)
      [] OTHER -> {a}

student_dashboard_page(a, env, click) ==
    IF IsEmpty(a.ss.student_data) THEN {a}
    ELSE dashboard_buttons([a EXCEPT !.fb = fetch_quiz_results(a.fb, env).fb],
                           env, click)

officer_dashboard_page(a, env) ==
    [a EXCEPT !.fb = fetch_all_students(a.fb, env).fb]


(***************************************************************************)
(* take_quiz_page and display_quiz_results.  A radio of the form is the    *)
(* list of its options and the index of the one selected; Streamlit keeps  *)
(* the selection of a radio from run to run while the radio is on the page *)
(* with the same key and the same options.                                 *)
(***************************************************************************)
MsgGenerated == "Generated questions successfully!"

MsgGenerateFailed == "Failed to generate quiz questions. Please try again."

MsgAnswerAll == "Please answer all questions before submitting."

OptionsOf(q) == GetKey(q, <<"options">>).items

\* the radios of the form of this quiz, given the radios of the last run
form_radios(quiz, radio) ==
    [i \in 1..Len(quiz) |->
        IF i <= Len(radio) /\ radio[i].options = OptionsOf(quiz[i])
        THEN radio[i]
        ELSE [options |-> OptionsOf(quiz[i]), index |-> 0]]

\* the values of the slider 'Number of Questions' the student sets: the
\* least and the most
SliderValues == {3, 10}

\* a question whose options are bare letters
LetterQuestionText(qlit, alit) ==
    << "{", "question:", qlit, "options:", "[", "s:x", "s:B", "]",
       "answer:", alit, "}" >>

\* the texts the API answers the quiz prompt of the app with: two questions
\* (the options of the first are bare letters), the same question twice, no
\* JSON
AppQuizTexts ==
    { <<"[">> \o LetterQuestionText("s:T1", "s:B")
              \o QuestionText("s:T2", "s:b) stack") \o <<"]">>,
      <<FenceJson, "[">> \o QuestionText("s:T1", "s:B") \o QuestionText("s:T1", "s:B")
              \o <<"]", Fence>>,
      <<"Sorry">> }

\* ai.generate_quiz_for_subject(subject, num_questions): what it leaves in
\* ai_utils and what it returns
AppQuizTable ==
    [g \in AppGems, num_questions \in SliderValues |->
        { [gem |-> o.gem, quiz |-> o.ret] :
            o \in { x \in generate_quiz_from(g, num_questions,
                             { [q |-> quiz_from_response(r, num_questions),
                                some |-> r.some, cls |-> "n/a"] :
                               r \in SafeGenOutcomes(AppQuizTexts) }) :
                      x.gem \in AppGems } }]

\* ai.generate_feedback(subject, score, total): what it leaves in ai_utils
AppFeedbackTable ==
    [g \in AppGems |->
        { o.gem : o \in generate_feedback(g, "DSA", 1, 2) } \cap AppGems]

\* Generate New Quiz pressed, with this subject and this number of questions
generate_new_quiz(a, subject, num_questions) ==
    LET made == IF a.ss.gemini_available
                THEN AppQuizTable[a.gem, num_questions]
                ELSE { [gem |-> a.gem,
                        quiz |-> Take(get_fallback_questions, num_questions)] }
    IN  { IF m.quiz # <<>>
          THEN [a EXCEPT !.gem = m.gem, !.msg = MsgGenerated,
                         !.ss.current_quiz_data = SomeList(m.quiz),
                         !.ss.current_quiz_subject = subject,
                         !.ss.quiz_answers = EmptyDict,
                         !.ss.quiz_submitted = FALSE,
                         !.ss.show_feedback = FALSE]
          ELSE [a EXCEPT !.gem = m.gem, !.msg = MsgGenerateFailed] :
          m \in made }

\* lines 690-704: the answers dict as the list of its items, in the order
\* of the first insertion of each key
RECURSIVE collect_answers(_, _, _, _)
collect_answers(quiz, radio, i, answers) ==
    IF i > Len(quiz) THEN answers
    ELSE LET question == GetKey(quiz[i], <<"question">>)
             choice == IF radio[i].index = 0 THEN VStr(<<>>)
                       ELSE radio[i].options[radio[i].index]
             there == { j \in 1..Len(answers) : answers[j].question = question }
         IN  collect_answers(quiz, radio, i + 1,
               IF choice.s = <<>> THEN answers
               ELSE IF there = {}
               THEN Append(answers, [question |-> question, choice |-> choice])
               ELSE [j \in 1..Len(answers) |->
                       IF j \in there THEN [answers[j] EXCEPT !.choice = choice]
                       ELSE answers[j]])

\* answers.get(question, "")
answer_of(answers, question) ==
    IF \E j \in 1..Len(answers) : answers[j].question = question
    THEN answers[CHOOSE j \in 1..Len(answers) : answers[j].question = question].choice
    ELSE VStr(<<>>)

\* lines 714-725: [score, incorrect_questions] after the questions from i on
RECURSIVE score_quiz(_, _, _, _, _)
score_quiz(quiz, answers, i, score, incorrect_questions) ==
    IF i > Len(quiz) THEN [score |-> score, incorrect_questions |-> incorrect_questions]
    ELSE LET q == quiz[i]
             user_ans == answer_of(answers, GetKey(q, <<"question">>))
             correct_ans == DictGet(q, <<"correct_answer">>,
                                    DictGet(q, <<"answer">>, VStr(<<>>)))
         IN  IF user_ans = correct_ans
             THEN score_quiz(quiz, answers, i + 1, score + 1, incorrect_questions)
             ELSE score_quiz(quiz, answers, i + 1, score,
                    Append(incorrect_questions,
                           [question |-> GetKey(q, <<"question">>),
                            user_answer |-> user_ans,
                            correct_answer |-> correct_ans,
                            explanation |-> DictGet(q, <<"explanation">>,
                                              VStr(<<"No explanation available">>))]))

\* lines 727-732 without the assignment of quiz_total
scored_without_total(a, quiz, r) ==
    [a EXCEPT !.ss.quiz_score = r.score,
              !.ss.incorrect_questions = r.incorrect_questions,
              !.ss.quiz_submitted = TRUE,
              !.ss.show_feedback = TRUE]

\* lines 727-732
scored(a, quiz, r) ==
    [a EXCEPT !.ss.quiz_score = r.score,
              !.ss.quiz_total = Len(quiz),
              !.ss.incorrect_questions = r.incorrect_questions,
              !.ss.quiz_submitted = TRUE,
              !.ss.show_feedback = TRUE]

\* Submit Quiz pressed: [a, rerun]
\* lines 707-732
submit_answers(a, quiz, answers) ==
    IF Len(answers) # Len(quiz)
    THEN [a |-> [a EXCEPT !.msg = MsgAnswerAll], rerun |-> FALSE]
    ELSE [a |-> scored(a, quiz, score_quiz(quiz, answers, 1, 0, <<>>)),
          rerun |-> TRUE]

submit_quiz(a, quiz, radio) ==
    submit_answers(a, quiz, collect_answers(quiz, radio, 1, <<>>))

\* lines 611-625: the buttons under the results
results_buttons(shown, click) ==
    CASE click = "another_quiz_btn" ->
           [a |-> reset_quiz_session(shown), rerun |-> TRUE, fired |-> TRUE]
      [] click = "view_progress_btn" ->
           [a |-> [shown EXCEPT !.ss.show_feedback = FALSE], rerun |-> TRUE,
            fired |-> TRUE]
      [] OTHER -> [a |-> shown, rerun |-> FALSE, fired |-> FALSE]

\* lines 585-608: the feedback is generated, the result is saved
results_saved(a, saved, click) ==
    { results_buttons([a EXCEPT !.gem = g, !.fb = saved.fb, !.view = "results"],
                      click) : g \in AppFeedbackTable[a.gem] }

\* display_quiz_results: every [a, rerun, fired]
display_quiz_results(a, env, click) ==
    IF a.ss.quiz_total = 0
    THEN { [a |-> [a EXCEPT !.view = "ZeroDivisionError"], rerun |-> FALSE,
            fired |-> FALSE] }
    ELSE results_saved(a,
           save_quiz_result(a.fb, env, a.ss.username, a.ss.current_quiz_subject,
                            a.ss.quiz_score, a.ss.quiz_total,
                            [timestamp |-> a.fb.clock,
                             percentage |-> Percentage(a.ss.quiz_score,
                                                       a.ss.quiz_total),
                             incorrect_count |-> Len(a.ss.incorrect_questions)]),
           click)


\* take_quiz_page: every [a, rerun, fired].  click is the button pressed in
\* this run, inp the values of the widgets: subject, num_questions and, when
\* the student has just selected options, the radios.
quiz_form(form, click) ==
    IF click = "submit_quiz_btn"
    THEN { [a |-> s.a, rerun |-> s.rerun, fired |-> TRUE] :
             s \in { submit_quiz(form, form.ss.current_quiz_data.v, form.radio) } }
    ELSE { [a |-> form, rerun |-> FALSE,
            fired |-> click \in {"select", "generate_quiz_btn"}] }

\* line 685 without the test of quiz_submitted
form_rendered_after_submit(a) ==
    a.ss.current_quiz_data.some /\ a.ss.current_quiz_data.v # <<>>

\* line 685: 'if quiz_data and not st.session_state.get('quiz_submitted', False)'
form_rendered(a) ==
    /\ a.ss.current_quiz_data.some /\ a.ss.current_quiz_data.v # <<>>
    /\ ~a.ss.quiz_submitted

\* lines 682-741: the right column
quiz_column(a, env, click, inp) ==
    IF form_rendered(a)
    THEN quiz_form([a EXCEPT !.view = "form",
                             !.radio = IF click = "select" THEN inp.radio
                                       ELSE form_radios(a.ss.current_quiz_data.v,
                                                        a.radio)],
                   click)
    ELSE IF a.ss.quiz_submitted /\ a.ss.show_feedback
    THEN { [r EXCEPT !.a.radio = <<>>,
                     !.fired = @ \/ click = "generate_quiz_btn"] :
           r \in display_quiz_results(a, env, click) }
    ELSE { [a |-> [a EXCEPT !.view = "info", !.radio = <<>>],
            rerun |-> FALSE, fired |-> click = "generate_quiz_btn"] }

take_quiz_page(a0, env, click, inp) ==
    IF a0.ss.current_subjects = <<>>
    THEN { [a |-> [a0 EXCEPT !.view = "no_subjects", !.radio = <<>>],
            rerun |-> FALSE, fired |-> FALSE] }
    ELSE UNION { UNION {
           quiz_column(a2, env, click, inp) :
           a2 \in IF click = "generate_quiz_btn"
                  THEN generate_new_quiz(a1, inp.subject, inp.num_questions)
                  ELSE {a1} } :
         a1 \in check_gemini_availability(a0, env) }

\* predict_employability_ml: the rule-based score, cgpa in tenths
year_bonus(year) ==
    CASE year = "1st Year" -> 5
      [] year = "2nd Year" -> 8
      [] year = "3rd Year" -> 12
      [] year = "4th Year" -> 15
      [] OTHER -> 5

cgpa_points(cgpa) ==
    IF cgpa >= 90 THEN 25
    ELSE IF cgpa >= 80 THEN 20
    ELSE IF cgpa >= 70 THEN 15
    ELSE IF cgpa >= 60 THEN 10
    ELSE 5

predict_employability_ml(student_data) ==
    IF IsEmpty(student_data) THEN 0
    ELSE Min(100,
             cgpa_points(Get(student_data, "cgpa", 65))
             + Min(20, Get(student_data, "internships", 0) * 5)
             + Min(15, Get(student_data, "projects", 0) * 3)
             + Min(15, Len(Get(student_data, "certifications", <<>>)) * 3)
             + Min(10, Get(student_data, "communication", 6))
             + year_bonus(Get(student_data, "year", "1st Year")))

\* lines 259-260: the score is stored on every run that renders the page
ml_score_stored(a) ==
    SetKeyOf(a, "ml_score", predict_employability_ml(a.ss.student_data))

\* get_fallback_job_analysis: the template with the values it is filled with
get_fallback_job_analysis(student_data, target_role, timeline_months) ==
    << "Career Development Plan", target_role,
       predict_employability_ml(student_data),
       Get(student_data, "year", "N/A"), Get(student_data, "cgpa", "N/A"),
       Get(student_data, "internships", 0), Get(student_data, "projects", 0),
       timeline_months >>

\* generate_job_analysis: every [gem, text]
generate_job_analysis(a, env, target_role, timeline_months) ==
    IF ~a.ss.gemini_available
    THEN { [gem |-> a.gem,
            text |-> get_fallback_job_analysis(a.ss.student_data, target_role,
                                               timeline_months)] }
    ELSE app_texts(generate_custom_content(a.gem, "none"), env)

\* lines 233-256: the buttons of the Career AI tab
career_buttons(a, env, click) ==
    CASE click = "analyze_job_fit" ->
           text_stored(a, "job_analysis",
                       generate_job_analysis(a, env, "Software Engineer", 6),
                       MsgAnalysisComplete)
      [] click = "predict_career" ->
           text_stored(a, "career_prediction",
                       app_texts(predict_career(a.gem, TRUE), env),
                       MsgPredictionComplete)
      [] OTHER -> {a}

career_ai_page(a, env, click) ==
    IF IsEmpty(a.ss.student_data) THEN {a}
    ELSE UNION { { ml_score_stored(c) : c \in career_buttons(b, env, click) } :
                 b \in check_gemini_availability(a, env) }

\* the years the selectbox of the profile page knows: with another year in
\* student_data, list.index raises and the run ends in the Profile tab
ProfileYears == {"1st Year", "2nd Year", "3rd Year", "4th Year"}

ProfileButtons == {"save_profile", "ai_resume_analysis"}

DashboardButtons == {"gen_study_plan", "get_career_suggestions"}

CareerButtons == {"analyze_job_fit", "predict_career"}

\* main() from the Career AI tab on, r what take_quiz_page gave
tabs_from_career(r, env, click) ==
    IF r.rerun \/ r.a.view = "ZeroDivisionError" THEN {r}
    ELSE { [r EXCEPT !.a = c,
                     !.fired = @ \/ (/\ click \in CareerButtons
                                     /\ ~IsEmpty(r.a.ss.student_data))] :
           c \in career_ai_page(r.a, env, click) }

\* main() from the Smart Quiz tab on; fired = the button pressed was on one
\* of the first two tabs
tabs_from_quiz(a, env, click, inp, fired) ==
    UNION { tabs_from_career([r EXCEPT !.fired = @ \/ fired], env, click) :
            r \in take_quiz_page(a, env, click, inp) }

\* main() from the Dashboard tab on
tabs_from_dashboard(a, env, click, inp) ==
    UNION { tabs_from_quiz(d, env, click, inp,
                           \/ click \in ProfileButtons
                           \/ (/\ click \in DashboardButtons
                               /\ ~IsEmpty(a.ss.student_data))) :
            d \in student_dashboard_page(a, env, click) }

\* main() for a student: every [a, rerun, fired]
student_tabs(a, env, click, inp) ==
    IF Get(a.ss.student_data, "year", "1st Year") \notin ProfileYears
    THEN { [a |-> [a EXCEPT !.view = "ValueError", !.radio = <<>>], rerun |-> FALSE,
            fired |-> FALSE] }
    ELSE UNION { tabs_from_dashboard(p, env, click, inp) :
                 p \in student_profile_page(a, env, click, inp) }

\* one run of the script: every [a, rerun, fired]
run_script(a0, env, click, inp) ==
    UNION {
      IF click = "dark_mode"
      THEN { [a |-> toggle_dark_mode(a), rerun |-> TRUE, fired |-> TRUE] }
      ELSE IF ~a.ss.logged_in
      THEN LET page == [a EXCEPT !.view = "login", !.radio = <<>>]
           IN  CASE click = "reg_btn" ->
                      { [a |-> register_account(page, env, inp), rerun |-> FALSE,
                         fired |-> TRUE] }
                 [] click = "login_btn" ->
                      { [a |-> l.a, rerun |-> l.rerun, fired |-> TRUE] :
                          l \in { login(page, env, inp.login_email, inp.student_env) } }
                 [] OTHER -> { [a |-> page, rerun |-> FALSE, fired |-> FALSE] }
      ELSE IF click = "logout_btn"
      THEN { [a |-> logout(a), rerun |-> TRUE, fired |-> TRUE] }
      ELSE IF a.ss.role = "Student"
      THEN student_tabs(a, env, click, inp)
      ELSE { [a |-> [officer_dashboard_page(a, env) EXCEPT !.view = "officer",
                                                           !.radio = <<>>],
              rerun |-> FALSE, fired |-> FALSE] } :
      a \in sidebar(init_session([a0 EXCEPT !.msg = "", !.view = ""]), env) }

NoInput == [subject |-> None, num_questions |-> 5]

\* an interaction: the run with the button pressed and, after st.rerun(),
\* the run without; the runs in which the button is on the page
RECURSIVE interact(_, _, _, _)
interact(a, env, click, inp) ==
    UNION { IF r.rerun
            THEN { [x EXCEPT !.msg = r.a.msg] : x \in interact(r.a, env, "", NoInput) }
            ELSE {r.a} :
            r \in { x \in run_script(a, env, click, inp) : x.fired \/ click = "" } }


(***************************************************************************)
(* The app in one browser session.  The Firebase project holds two         *)
(* students who registered earlier; appLast keeps the last interaction:    *)
(* the button, what the Smart Quiz tab showed, the message, the value of   *)
(* the slider and the radios the handler read.                             *)
(***************************************************************************)
MaxWrites == 2

FbUp == FbEnv("valid", TRUE, TRUE, TRUE)

\* the services during one interaction.  Firebase was initialised at the
\* import, its requests succeed or fail; the Gemini API answers the status
\* checks or does not
AppEnvs ==
    { e @@ [gemini |-> b] :
        e \in { FbUp, FbEnv("valid", TRUE, FALSE, TRUE) }, b \in BOOLEAN }

AppUp == FbUp @@ [gemini |-> TRUE]

AppProject ==
    LET f1 == register_user(setup_firebase(FbNew, FbUp), FbUp, <<"a@x">>, <<"secret">>,
                            "Student", <<"Asha">>, "2nd Year").fb
    IN  register_user(f1, FbUp, <<"b@x">>, <<"secret">>, "Student", <<" ">>,
                      "3rd Year").fb

\* what is typed into the registration form
RegInputs ==
    { [email |-> <<"c@x", " ">>, password |-> <<"secret">>, role |-> "Student",
       name |-> <<"Chitra">>, year |-> "4th Year"],
      [email |-> <<"c@x">>, password |-> <<"secret">>, role |-> "Placement Officer",
       name |-> <<>>, year |-> ""],
      [email |-> <<"a@x">>, password |-> <<"secret">>, role |-> "Student",
       name |-> <<"Mallory">>, year |-> "1st Year"],
      [email |-> <<"c@x">>, password |-> <<>>, role |-> "Student",
       name |-> <<"Chitra">>, year |-> "4th Year"] }

LoginEmails == { <<"a@x">>, <<" ", "b@x">>, <<"c@x">>, <<>> }

\* the values of the widgets of the profile page when Save Profile is pressed
ProfileInputs ==
    { [name |-> <<"Asha", " ", "K">>, year |-> "3rd Year", cgpa |-> 85,
       certs |-> << <<"SQL">>, <<" ">>, <<" ", "AWS", " ">> >>, internships |-> 1,
       projects |-> 2, comm_skills |-> 7, target_companies |-> <<"Acme">>,
       dream_role |-> <<"SDE">>],
      [name |-> <<>>, year |-> "1st Year", cgpa |-> 70, certs |-> <<>>,
       internships |-> 0, projects |-> 0, comm_skills |-> 6,
       target_companies |-> <<>>, dream_role |-> <<>>] }

\* the option of q that starts with the letter of its answer, or the first
CorrectIndex(q) ==
    LET answer == DictGet(q, <<"answer">>, VStr(<<>>))
        hits == { i \in 1..Len(OptionsOf(q)) :
                    /\ answer.t = "str" /\ Len(answer.s) = 1
                    /\ OptionsOf(q)[i].s # <<>>
                    /\ OptionsOf(q)[i].s[1] = answer.s[1] }
    IN  IF hits = {} THEN 1 ELSE CHOOSE i \in hits : TRUE

WrongIndex(q) == IF CorrectIndex(q) = 1 THEN 2 ELSE 1

\* the ways the student fills the form: every answer right, every answer
\* wrong, only the first answered
AnswerSheets(quiz) ==
    { [i \in 1..Len(quiz) |->
         [options |-> OptionsOf(quiz[i]),
          index |-> CASE sheet = "right" -> CorrectIndex(quiz[i])
                      [] sheet = "wrong" -> WrongIndex(quiz[i])
                      [] sheet = "first only" ->
                            IF i = 1 THEN CorrectIndex(quiz[i]) ELSE 0]] :
      sheet \in {"right", "wrong", "first only"} }

AppState ==
    [ss |-> ss, keys |-> ssKeys, gem |-> gem, fb |-> fb, radio |-> radios,
     view |-> "", msg |-> ""]

AppFirst(act) ==
    [act |-> act, view |-> "login", msg |-> "", num_questions |-> 0, radio |-> <<>>]

\* the session of a browser that has just opened the app: the first run
AppStarted ==
    \E f \in {AppProject}, g \in AppGems, env \in AppEnvs :
        \E a \in interact([ss |-> NoSession, keys |-> {}, gem |-> g, fb |-> f,
                           radio |-> <<>>, view |-> "", msg |-> ""], env, "", NoInput) :
            /\ ss = a.ss /\ ssKeys = a.keys /\ gem = a.gem /\ fb = a.fb
            /\ radios = a.radio
            /\ appLast = AppFirst("open")

\* the session of a student who has opened the app and logged in
StudentLoggedIn ==
    \E f \in {AppProject}, g \in AppGems, env \in AppEnvs :
        \E a0 \in interact([ss |-> NoSession, keys |-> {}, gem |-> g, fb |-> f,
                            radio |-> <<>>, view |-> "", msg |-> ""], env, "", NoInput) :
            \E a \in interact(a0, AppUp, "login_btn",
                              [login_email |-> <<"a@x">>, student_env |-> AppUp]) :
                /\ ss = a.ss /\ ssKeys = a.keys /\ gem = a.gem /\ fb = a.fb
                /\ radios = a.radio
                /\ appLast = [AppFirst("login_btn") EXCEPT !.view = a.view,
                                                          !.msg = a.msg]

\* the sessions of a student who has logged in, generated a quiz, answered
\* it, submitted it and closed its results with View Progress Analytics
LoggedInSessions ==
    UNION { UNION { interact(a0, AppUp, "login_btn",
                             [login_email |-> <<"a@x">>, student_env |-> AppUp]) :
                    a0 \in interact([ss |-> NoSession, keys |-> {}, gem |-> g,
                                     fb |-> AppProject, radio |-> <<>>, view |-> "",
                                     msg |-> ""], AppUp, "", NoInput) } :
            g \in AppGems }

QuizSessions ==
    { q \in UNION { interact(a, AppUp, "generate_quiz_btn",
                             [subject |-> Head(a.ss.current_subjects),
                              num_questions |-> 3]) : a \in LoggedInSessions } :
        q.ss.current_quiz_data.some }

AnsweredSessions ==
    UNION { UNION { interact(q, AppUp, "select", [radio |-> sheet]) :
                    sheet \in AnswerSheets(q.ss.current_quiz_data.v) } :
            q \in QuizSessions }

ClosedQuizSessions ==
    UNION { UNION { interact(r, AppUp, "view_progress_btn", NoInput) :
                    r \in interact(q, AppUp, "submit_quiz_btn", NoInput) } :
            q \in AnsweredSessions }

StudentAfterQuiz ==
    \E a \in ClosedQuizSessions :
        /\ a.ss.quiz_score = 1
        /\ ss = a.ss /\ ssKeys = a.keys /\ gem = a.gem /\ fb = a.fb
        /\ radios = a.radio
        /\ appLast = [AppFirst("view_progress_btn") EXCEPT !.view = a.view,
                                                          !.msg = a.msg]

\* the app not opened
AppAtRest ==
    /\ ss = NoSession /\ ssKeys = {} /\ radios = <<>>
    /\ appLast = AppFirst("closed")

AppStep(act, num_questions, read, a) ==
    /\ a.fb.clock <= AppProject.clock + MaxWrites
    /\ ss' = a.ss /\ ssKeys' = a.keys /\ gem' = a.gem /\ fb' = a.fb
    /\ radios' = a.radio
    /\ appLast' = [act |-> act, view |-> a.view, msg |-> a.msg,
                   num_questions |-> num_questions, radio |-> read]
    /\ UNCHANGED <<aiLast, mlVars, fbLast>>

\* a widget that no handler reads was used
Rerun ==
    \E env \in AppEnvs : \E a \in interact(AppState, env, "", NoInput) :
        AppStep("rerun", 0, <<>>, a)

ToggleDarkMode ==
    \E env \in AppEnvs : \E a \in interact(AppState, env, "dark_mode", NoInput) :
        AppStep("dark_mode", 0, <<>>, a)

RegisterAccount ==
    \E env \in AppEnvs, reg \in RegInputs :
        \E a \in interact(AppState, env, "reg_btn", reg) : AppStep("reg_btn", 0, <<>>, a)

Login ==
    \E env \in AppEnvs, login_email \in LoginEmails :
        \E student_env \in { e \in AppEnvs : e.gemini = env.gemini } :
            \E a \in interact(AppState, env, "login_btn",
                              [login_email |-> login_email,
                               student_env |-> student_env]) :
                AppStep("login_btn", 0, <<>>, a)

Logout ==
    \E env \in AppEnvs : \E a \in interact(AppState, env, "logout_btn", NoInput) :
        AppStep("logout_btn", 0, <<>>, a)

SaveProfile ==
    \E env \in AppEnvs, w \in ProfileInputs :
        \E a \in interact(AppState, env, "save_profile", w) :
            AppStep("save_profile", 0, <<>>, a)

GenerateNewQuiz ==
    /\ ss.current_subjects # <<>>
    /\ \E env \in AppEnvs, num_questions \in SliderValues :
        \E a \in interact(AppState, env, "generate_quiz_btn",
                          [subject |-> Head(ss.current_subjects),
                           num_questions |-> num_questions]) :
            AppStep("generate_quiz_btn", num_questions, <<>>, a)

SelectAnswers ==
    /\ ss.current_quiz_data.some
    /\ \E env \in AppEnvs, sheet \in AnswerSheets(ss.current_quiz_data.v) :
        \E a \in interact(AppState, env, "select", [radio |-> sheet]) :
            AppStep("select", 0, <<>>, a)

SubmitQuiz ==
    \E env \in AppEnvs : \E a \in interact(AppState, env, "submit_quiz_btn", NoInput) :
        AppStep("submit_quiz_btn", 0, radios, a)

TakeAnotherQuiz ==
    \E env \in AppEnvs : \E a \in interact(AppState, env, "another_quiz_btn", NoInput) :
        AppStep("another_quiz_btn", 0, <<>>, a)

ViewProgress ==
    \E env \in AppEnvs : \E a \in interact(AppState, env, "view_progress_btn", NoInput) :
        AppStep("view_progress_btn", 0, <<>>, a)

\* the buttons that store a generated text in the session
\* AI Resume Analysis (Profile tab)
AIResumeAnalysis ==
    \E env \in AppEnvs : \E a \in interact(AppState, env, "ai_resume_analysis", NoInput) :
        AppStep("ai_resume_analysis", 0, <<>>, a)

\* Generate AI Study Plan (Dashboard tab)
GenerateAIStudyPlan ==
    \E env \in AppEnvs : \E a \in interact(AppState, env, "gen_study_plan", NoInput) :
        AppStep("gen_study_plan", 0, <<>>, a)

\* Get Career Suggestions (Dashboard tab)
GetCareerSuggestions ==
    \E env \in AppEnvs : \E a \in interact(AppState, env, "get_career_suggestions", NoInput) :
        AppStep("get_career_suggestions", 0, <<>>, a)

\* Analyze Job Fit (Career AI tab)
AnalyzeJobFit ==
    \E env \in AppEnvs : \E a \in interact(AppState, env, "analyze_job_fit", NoInput) :
        AppStep("analyze_job_fit", 0, <<>>, a)

\* Predict Career Paths (Career AI tab)
PredictCareerPaths ==
    \E env \in AppEnvs : \E a \in interact(AppState, env, "predict_career", NoInput) :
        AppStep("predict_career", 0, <<>>, a)

\* accounts and profiles: the login page, the sidebar, the Profile tab
NextApp ==
    \/ Rerun
    \/ ToggleDarkMode
    \/ RegisterAccount
    \/ Login
    \/ Logout
    \/ SaveProfile

\* quizzes: the Smart Quiz tab of a student who has logged in
NextQuiz ==
    \/ Rerun
    \/ Logout
    \/ GenerateNewQuiz
    \/ SelectAnswers
    \/ SubmitQuiz
    \/ TakeAnotherQuiz
    \/ ViewProgress

\* what a session holds: logins and logouts, and the buttons that store a
\* generated text
NextSession ==
    \/ Rerun
    \/ Login
    \/ Logout
    \/ AIResumeAnalysis
    \/ GenerateAIStudyPlan
    \/ GetCareerSuggestions
    \/ AnalyzeJobFit
    \/ PredictCareerPaths


(***************************************************************************)
(* Specifications.  Each module is exercised on its own: its functions     *)
(* are called in any order with any arguments, the other modules at rest.  *)
(***************************************************************************)
InitAI == AiImported /\ MlAtRest /\ modelFile = "absent" /\ FbAtRest /\ AppAtRest

SpecAI == InitAI /\ [][NextAI]_vars

InitML ==
    /\ gem = GemUnset
    /\ aiLast = NoCall
    /\ MlAtRest
    /\ modelFile \in ModelFiles
    /\ FbAtRest
    /\ AppAtRest

SpecML == InitML /\ [][NextML]_vars

InitFB ==
    /\ gem = GemUnset
    /\ aiLast = NoCall
    /\ MlAtRest
    /\ modelFile = "absent"
    /\ FbImported
    /\ AppAtRest

SpecFB == InitFB /\ [][NextFB]_vars

InitApp ==
    /\ aiLast = NoCall
    /\ MlAtRest
    /\ modelFile = "absent"
    /\ fbLast = FbNoCall
    /\ AppStarted

SpecApp == InitApp /\ [][NextApp]_vars

InitQuiz ==
    /\ aiLast = NoCall
    /\ MlAtRest
    /\ modelFile = "absent"
    /\ fbLast = FbNoCall
    /\ StudentLoggedIn

SpecQuiz == InitQuiz /\ [][NextQuiz]_vars

InitSession ==
    /\ aiLast = NoCall
    /\ MlAtRest
    /\ modelFile = "absent"
    /\ fbLast = FbNoCall
    /\ (AppStarted \/ StudentAfterQuiz)

SpecSession == InitSession /\ [][NextSession]_vars

(***************************************************************************)
(* Properties of ai_utils (SpecAI)                                         *)
(***************************************************************************)
QuizResultOk ==
    /\ ~aiLast.raised
    /\ Len(aiLast.ret) >= 1
    /\ Len(aiLast.ret) <= aiLast.args[1]

\* C1 as stated: generate_quiz_for_subject never raises and returns between 1
\* and num_questions questions, and whenever the status check is false, no
\* model is found, an exception occurs, no text comes back, the text is not
\* JSON or the JSON is not a list of question objects, the result is a prefix
\* of get_fallback_questions().
C1_AsStated ==
    aiLast.op = "quiz" =>
        /\ QuizResultOk
        /\ (\/ ~aiLast.obs.status
            \/ ~aiLast.obs.model
            \/ aiLast.obs.exc
            \/ aiLast.obs.cls \in {"no_text", "not_json", "not_list", "raising",
                                   "no_questions", "mixed"})
           => IsPrefix(aiLast.ret, get_fallback_questions)

\* C1 amended: the same, where the failing JSON answers are those that are not
\* a list, hold no question object, or hold an element on which the validation
\* raises; a list that mixes question objects with other objects or strings
\* gives its question objects (the answer cut to a letter) and not the fallback.
C1_QuizFallback ==
    aiLast.op = "quiz" =>
        /\ QuizResultOk
        /\ (\/ ~aiLast.obs.status
            \/ ~aiLast.obs.model
            \/ aiLast.obs.exc
            \/ aiLast.obs.cls \in {"no_text", "not_json", "not_list", "raising",
                                   "no_questions"})
           => IsPrefix(aiLast.ret, get_fallback_questions)
        /\ aiLast.obs.cls = "mixed"
           => /\ ~IsPrefix(aiLast.ret, get_fallback_questions)
              /\ \A i \in 1..Len(aiLast.ret) : IsQuestionObject(aiLast.ret[i])

\* a quiz call in which the validation raised on the response of the API and
\* the fallback questions were returned
C1_Witness ==
    /\ aiLast.op = "quiz"
    /\ aiLast.obs.cls = "raising"
    /\ aiLast.obs.exc
    /\ aiLast.args[1] = 2
    /\ aiLast.ret = Take(get_fallback_questions, 2)

\* C2 as stated: for total >= 0 and 0 <= score <= total generate_feedback
\* never raises and returns a non-empty string, the fallback feedback of the
\* same subject, score and total whenever Gemini is unavailable or the
\* generation fails.
C2_AsStated ==
    aiLast.op = "feedback" =>
        /\ ~aiLast.raised
        /\ aiLast.ret # <<>>
        /\ (~aiLast.obs.status \/ ~aiLast.obs.model \/ ~aiLast.obs.text)
           => aiLast.ret = get_fallback_feedback(aiLast.args[1], aiLast.args[2],
                                                 aiLast.args[3]).text

UnavailableMessage(op) ==
    CASE op = "custom" -> MsgCustomUnavailable
      [] op = "study_plan" -> MsgStudyUnavailable
      [] op = "career" -> MsgCareerUnavailable

\* C3: generate_custom_content, generate_study_plan and predict_career never
\* raise and return a non-empty string; when the status check is false they
\* return their fixed unavailable message (a false status check of the nested
\* generate_custom_content gives its unavailable message) and the prompt is not
\* sent to a model.
C3_UnavailableMessage ==
    aiLast.op \in {"custom", "study_plan", "career"} =>
        /\ ~aiLast.raised
        /\ aiLast.ret # <<>>
        /\ ~aiLast.obs.status
           => aiLast.ret = UnavailableMessage(aiLast.op) /\ ~aiLast.obs.sent
        /\ ~aiLast.obs.status2
           => aiLast.ret = MsgCustomUnavailable /\ ~aiLast.obs.sent

\* the study plan was asked for while the status check was false
C3_Witness ==
    /\ aiLast.op = "study_plan"
    /\ ~aiLast.obs.status
    /\ aiLast.ret = MsgStudyUnavailable

\* C4 as stated: analyze_resume_with_ai returns the fallback analysis of the
\* same student data when the status check is false, no model is available,
\* the generation gives no text or an exception occurs, and AI text only when
\* the generation succeeded.
C4_AsStated ==
    aiLast.op = "resume" =>
        LET fallback == get_fallback_resume_analysis(aiLast.args[1])
        IN  /\ (\/ ~aiLast.obs.status
                \/ ~aiLast.obs.status2
                \/ ~aiLast.obs.model
                \/ ~aiLast.obs.text
                \/ aiLast.obs.exc) => aiLast.ret = fallback
            /\ aiLast.ret # fallback => aiLast.obs.text

(***************************************************************************)
(* Properties of ml_model (SpecML)                                         *)
(***************************************************************************)

\* C7, as stated: predict is never reached with model = None, whatever
\* happened in the earlier calls, so that no call of predict_employability
\* or get_confidence_analysis ends in 'Model not trained'.  The code makes
\* _predictor the new instance before it loads or trains, and a train_model
\* that raises before line 88 leaves that instance, without a model, to
\* every later call.
C7_AsStated ==
    ~ ( /\ mlLast.reached
        /\ mlLast.op \in {"predict_employability", "get_confidence_analysis"}
        /\ mlLast.self.model = None
        /\ mlLast.error = MsgNotTrained )

Trained(p) == p.model = "fitted" /\ p.scaler /\ p.encoders

\* the features the claim describes, d being the student dictionary
DefaultedFeatures(d) ==
    LET has(k) == k \in DOMAIN d
        certs == IF has("certifications") THEN Len(d.certifications) ELSE 0
        interns == IF has("internships") THEN d.internships ELSE 0
    IN  << IF has("cgpa") THEN d.cgpa ELSE 65,
           interns,
           IF has("projects") THEN d.projects ELSE 0,
           certs,
           IF has("communication") THEN d.communication ELSE 6,
           CASE ~has("year") -> 0
             [] d.year = "1st Year" -> 0
             [] d.year = "2nd Year" -> 1
             [] d.year = "3rd Year" -> 2
             [] d.year = "4th Year" -> 3
             [] OTHER -> 0,
           IF certs + interns > 10 THEN 10 ELSE certs + interns >>

\* C8: whenever predict is reached, it leaves the predictor as it was; with
\* model None it raises the ValueError 'Model not trained. Call
\* train_model() first.' and returns nothing; with a trained model it does
\* not raise, it reads the features with the defaults for the missing keys
\* and 0 for a year the encoder has not seen, and it returns the model's
\* prediction when that lies in 0..100, 0 when it is below and 100 when it
\* is above.
C8_PredictContract ==
    (mlLast.reached /\ mlLast.op = "predict_employability") =>
        /\ predictor = mlLast.self
        /\ mlLast.self.model = None =>
               mlLast.error = MsgNotTrained /\ mlLast.ret = <<>>
        /\ Trained(mlLast.self) =>
               /\ mlLast.error = None
               /\ mlLast.features = DefaultedFeatures(mlLast.student)
               /\ Len(mlLast.ret) = 1
               /\ mlLast.ret[1] \in 0..100
               /\ mlLast.raw \in 0..100 => mlLast.ret[1] = mlLast.raw
               /\ mlLast.raw < 0 => mlLast.ret[1] = 0
               /\ mlLast.raw > 100 => mlLast.ret[1] = 100

\* a trained model predicts 104 for a student of an unseen year who gives
\* no projects: predict returns 100
C8_Witness ==
    /\ mlLast.reached /\ mlLast.op = "predict_employability"
    /\ Trained(mlLast.self)
    /\ "year" \in DOMAIN mlLast.student /\ mlLast.student.year = "5th Year"
    /\ mlLast.raw = 104
    /\ mlLast.ret = <<100>>

(***************************************************************************)
(* Properties of firebase_helper (SpecFB)                                  *)
(***************************************************************************)

\* what each operation returns when it fails
FailureValue(op) ==
    CASE op \in {"create_student", "save_student_data", "save_quiz_question",
                 "save_quiz_result"} -> FALSE
      [] op \in {"fetch_all_students", "fetch_quiz_results",
                 "fetch_student_quiz_results"} -> <<>>
      [] op \in {"get_student", "login_user"} -> NoneDict

\* C5, as stated: a call that returns with _db still None has returned its
\* failure value, has not raised and has written nothing.  register_user
\* for a placement officer calls auth.create_user before it touches _db:
\* when initialize_app succeeded and firestore.client() did not, it creates
\* the account in Firebase Auth and then returns (False, message).
C5_AsStated ==
    (fbLast.op # "import" /\ fbLast.dbNone) =>
        /\ ~fbLast.raised
        /\ ~fbLast.wrote
        /\ IF fbLast.op = "register_user" THEN fbLast.ret[1] = FALSE
           ELSE fbLast.ret = FailureValue(fbLast.op)


(***************************************************************************)
(* Properties of the profile (SpecApp)                                     *)
(***************************************************************************)
SavedFields ==
    {"name", "year", "cgpa", "certifications", "internships", "projects",
     "communication", "target_companies", "dream_role", "subjects"}

\* the session and the document d hold every saved field with the same value
SameProfile(d) ==
    /\ \A k \in SavedFields :
          /\ k \in DOMAIN d /\ k \in DOMAIN ss.student_data
          /\ ss.student_data[k] = d[k]
    /\ ss.current_year = d["year"]
    /\ ss.current_subjects = d["subjects"]

\* Save Profile has just succeeded
ProfileJustSaved == appLast.act = "save_profile" /\ appLast.msg = MsgProfileSaved

\* a student whose profile was saved earlier has just logged in
SavedStudentJustLoggedIn ==
    /\ appLast.act = "login_btn" /\ appLast.msg = MsgLoginSuccessful
    /\ ss.role = "Student"
    /\ ss.username \in DOMAIN fb.students
    /\ "updated_at" \in DOMAIN fb.students[ss.username]

\* what is not a successful Save Profile leaves every students document as
\* it was
KeepsDocuments ==
    \/ appLast'.act = "save_profile" /\ appLast'.msg = MsgProfileSaved
    \/ \A e \in DOMAIN fb.students :
          e \in DOMAIN fb'.students /\ fb'.students[e] = fb.students[e]

QuizJustSubmitted == appLast.act = "submit_quiz_btn" /\ ss.quiz_submitted

\* the questions for which the option selected is the correct one
CorrectlyAnswered(quiz, radio) ==
    { i \in 1..Len(quiz) : radio[i].index = CorrectIndex(quiz[i]) }

\* C9 as stated: when a quiz is submitted, quiz_score is the number of
\* questions for which the student selected the correct option, and
\* incorrect_questions lists exactly the questions answered wrongly.
C9_AsStated ==
    QuizJustSubmitted =>
        LET quiz == ss.current_quiz_data.v
            right == CorrectlyAnswered(quiz, appLast.radio)
        IN  /\ ss.quiz_score = Cardinality(right)
            /\ Len(ss.incorrect_questions) = Len(quiz) - Cardinality(right)
            /\ \A i \in 1..Len(quiz) :
                  i \notin right <=>
                  \E j \in 1..Len(ss.incorrect_questions) :
                      ss.incorrect_questions[j].question
                          = GetKey(quiz[i], <<"question">>)

\* Generate New Quiz has just been pressed and a quiz was stored
QuizJustGenerated ==
    appLast.act = "generate_quiz_btn" /\ appLast.msg = MsgGenerated

\* C10 as stated: the quiz stored in current_quiz_data has exactly the
\* number of questions chosen on the slider, from the AI or from the
\* fallback questions.
C10_AsStated ==
    QuizJustGenerated => Len(ss.current_quiz_data.v) = appLast.num_questions

\* Submit Quiz is pressed and the answers are accepted in this step
QuizAccepted ==
    /\ appLast'.act = "submit_quiz_btn"
    /\ ~ss.quiz_submitted /\ ss'.quiz_submitted

\* C11 as stated: a quiz submission adds one document to quiz_results, and
\* no later run of the script adds another while the results of that quiz
\* are shown: a step that is not an accepted submission leaves quiz_results
\* as it was.  display_quiz_results calls fb.save_quiz_result on every run
\* that renders the results.
C11_AsStated ==
    [][IF QuizAccepted
       THEN Len(fb'.quiz_results) <= Len(fb.quiz_results) + 1
       ELSE fb'.quiz_results = fb.quiz_results]_vars

\* the documents of quiz_results that the app has added
AppResults == fb.quiz_results

\* a document of quiz_results is well formed
WellFormedResult(d) ==
    /\ d.total >= 1
    /\ 0 <= d.score /\ d.score <= d.total
    /\ d.percentage = Percentage(d.score, d.total)
    /\ d.percentage.den # 0
    /\ d.details.percentage = d.percentage
    /\ d.details.incorrect_count = d.total - d.score

\* C12: every document the app adds to quiz_results has total >= 1,
\* 0 <= score <= total, percentage = score / total * 100 and
\* details.incorrect_count = total - score; display_quiz_results is never
\* reached with quiz_total = 0 (no run ends in its ZeroDivisionError); and
\* fb.save_quiz_result called with total = 0 returns False and adds nothing,
\* whatever Firebase does.
C12_ResultsWellFormed ==
    /\ \A i \in 1..Len(AppResults) : WellFormedResult(AppResults[i])
    /\ appLast.view # "ZeroDivisionError"
    /\ (ss.quiz_submitted => ss.quiz_total >= 1)
    /\ \A env \in FbEnvs, score \in {0, 1} :
          LET o == save_quiz_result(fb, env, ss.username, "DSA", score, 0,
                                    [incorrect_count |-> 0])
          IN  o.ret = FALSE /\ ~o.raised /\ Stored(o.fb) = Stored(fb)

\* a quiz of two questions with one right answer was submitted, and its
\* result is in quiz_results
C12_Witness ==
    /\ appLast.view = "results"
    /\ ss.quiz_score = 1 /\ ss.quiz_total = 2
    /\ Len(AppResults) >= 1
    /\ AppResults[Len(AppResults)].score = 1
    /\ AppResults[Len(AppResults)].total = 2
    /\ AppResults[Len(AppResults)].details.incorrect_count = 1

\* every radio of the form has an option selected
AllSelected(radio) == \A i \in 1..Len(radio) : radio[i].index # 0

\* the session keys that hold the result of a submission
QuizResultKeys ==
    {"quiz_score", "quiz_total", "incorrect_questions", "quiz_submitted",
     "show_feedback"}

\* Submit Quiz is pressed in this step
SubmitPressed == appLast'.act = "submit_quiz_btn"

\* C13 as stated: Submit Quiz is accepted exactly when every question of the
\* current quiz has a selected option; otherwise the handler shows 'Please
\* answer all questions before submitting.' and leaves quiz_score,
\* quiz_total, incorrect_questions, quiz_submitted and show_feedback as they
\* were.  The handler counts the keys of the answers dict, which is keyed by
\* the question text: two questions with the same text share one key.
C13_AsStated ==
    [][SubmitPressed =>
         IF AllSelected(radios)
         THEN /\ ss'.quiz_submitted /\ ss'.show_feedback
              /\ ss'.quiz_total = Len(ss.current_quiz_data.v)
         ELSE /\ appLast'.msg = MsgAnswerAll
              /\ \A k \in QuizResultKeys : ss'[k] = ss[k]]_vars

\* a quiz is stored in the session
QuizExists == ss.current_quiz_data.some /\ ss.current_quiz_data.v # <<>>

\* what the Smart Quiz tab showed in the last run agrees with the session
ViewsInOrder ==
    /\ appLast.view = "form" => (QuizExists /\ ~ss.quiz_submitted)
    /\ appLast.view = "results" =>
          /\ ss.quiz_submitted /\ ss.show_feedback
          /\ QuizExists /\ ss.quiz_total = Len(ss.current_quiz_data.v)

\* a step from a session with a submitted quiz keeps the result and the
\* quiz, and is not a submission
SubmittedStays ==
    /\ appLast'.act # "submit_quiz_btn"
    /\ ss'.quiz_submitted
    /\ ss'.quiz_score = ss.quiz_score
    /\ ss'.quiz_total = ss.quiz_total
    /\ ss'.incorrect_questions = ss.incorrect_questions
    /\ ss'.current_quiz_data = ss.current_quiz_data

\* C14 as stated: the answer form is rendered only while a quiz exists and
\* quiz_submitted is false, and the results view only while quiz_submitted
\* and show_feedback are true; once a quiz is submitted, its quiz_score,
\* quiz_total and incorrect_questions do not change and it is not submitted
\* again until Generate New Quiz or Take Another Quiz is used.
C14_AsStated ==
    /\ []ViewsInOrder
    /\ [][(ss.quiz_submitted
           /\ appLast'.act \notin {"generate_quiz_btn", "another_quiz_btn"})
          => SubmittedStays]_vars

\* C14, amended: the same, with Logout named as the third way out: it
\* deletes every key of the session, the result of the quiz with them.
C14_QuizFlow ==
    /\ []ViewsInOrder
    /\ [][(ss.quiz_submitted
           /\ appLast'.act \notin {"generate_quiz_btn", "another_quiz_btn",
                                   "logout_btn"})
          => SubmittedStays]_vars

\* a quiz was submitted, View Progress Analytics closed its results, and the
\* script has run again since: the result is still in the session
C14_Witness ==
    /\ appLast.act = "rerun" /\ appLast.view = "info"
    /\ ss.quiz_submitted /\ ~ss.show_feedback
    /\ ss.quiz_score = 1 /\ ss.quiz_total = 2
    /\ Len(ss.incorrect_questions) = 1

\* the session keys reset_quiz_session does not name
OtherKeyNames == DOMAIN defaults \ QuizKeyNames

\* the session after reset_quiz_session and the init_session of the next run
ResetThenInit == init_session(reset_quiz_session(AppState))

\* reset_quiz_session and init_session, applied to the session as it is
ResetsQuizOnly ==
    /\ \A k \in QuizKeyNames :
          /\ k \notin reset_quiz_session(AppState).keys
          /\ k \in ResetThenInit.keys
          /\ ResetThenInit.ss[k] = defaults[k]
    /\ \A k \in OtherKeyNames :
          /\ k \in ssKeys <=> k \in reset_quiz_session(AppState).keys
          /\ ResetThenInit.ss[k] = ss[k]
    /\ \A k \in ssKeys : init_session(AppState).ss[k] = ss[k]

\* Take Another Quiz is pressed in this step
AnotherQuizPressed == appLast'.act = "another_quiz_btn"

\* C15: reset_quiz_session followed by the init_session of the next run
\* puts the nine quiz keys at their defaults and leaves logged_in, username,
\* role, student_data, current_year, current_subjects, dark_mode and
\* gemini_available as they were, and init_session never overwrites a key
\* that is present; a press of Take Another Quiz leaves the session so
\* (gemini_available is written by the status check of each run, before and
\* after the handler, and is left out of the step).
C15_ResetQuizOnly ==
    /\ []ResetsQuizOnly
    /\ [][AnotherQuizPressed =>
            /\ \A k \in QuizKeyNames : ss'[k] = defaults[k]
            /\ \A k \in OtherKeyNames \ {"gemini_available"} : ss'[k] = ss[k]
            /\ DOMAIN defaults \subseteq ssKeys']_vars

\* a submitted quiz was left with Take Another Quiz: its result is in
\* quiz_results, the session is that of the student with no quiz
C15_Witness ==
    /\ appLast.act = "another_quiz_btn" /\ appLast.view = "info"
    /\ ss.logged_in /\ ss.username = <<"a@x">> /\ ss.current_subjects # <<>>
    /\ ss.current_quiz_data = NoneList /\ ss.quiz_total = 0 /\ ~ss.quiz_submitted
    /\ Len(fb.quiz_results) >= 1

(***************************************************************************)
(* Properties of the session (SpecSession)                                 *)
(***************************************************************************)
\* the session holds nothing of a user, and the login page is shown
NothingOfAUser ==
    /\ ~ss.logged_in /\ ss.username = <<>> /\ ss.role = None
    /\ ss.student_data = EmptyDict
    /\ ss.current_year = None /\ ss.current_subjects = <<>>
    /\ \A k \in QuizKeyNames : ss[k] = defaults[k]
    /\ \A k \in CareerKeyNames : k \notin ssKeys /\ ss[k] = None
    /\ appLast.view = "login"

\* what the session of the logged-in user holds is that user's own
OnlyOwnData ==
    /\ ss.student_data \in {EmptyDict, fb.students[ss.username]}
    /\ "ml_score" \in ssKeys => ss.ml_score = predict_employability_ml(ss.student_data)
    /\ "job_analysis" \in ssKeys =>
          ss.job_analysis \in { <<"OK">>,
                                get_fallback_job_analysis(ss.student_data,
                                                          "Software Engineer", 6) }

\* a user has just logged in
JustLoggedIn == appLast.act = "login_btn" /\ ss.logged_in

\* C16: after Logout the session holds nothing of the previous user:
\* logged_in is False, username '', role None, student_data {},
\* current_subjects [], the quiz keys are at their defaults, job_analysis,
\* career_prediction, study_plan, resume_analysis and ml_score are absent
\* and the login page is shown; the session stays so until a login, and the
\* user who logs in next starts with no quiz, no generated text and no data
\* but their own.
C16_LogoutClearsSession ==
    /\ appLast.act = "logout_btn" => NothingOfAUser
    /\ ~ss.logged_in => NothingOfAUser
    /\ JustLoggedIn =>
          /\ \A k \in QuizKeyNames : ss[k] = defaults[k]
          /\ ssKeys \cap CareerKeyNames \subseteq {"ml_score"}
    /\ ss.logged_in => OnlyOwnData

\* student a@x took a quiz and logged out, and student b@x has logged in:
\* the session holds the profile of b@x and nothing else
C16_Witness ==
    /\ JustLoggedIn /\ ss.username = <<"b@x">>
    /\ Len(fb.quiz_results) >= 1 /\ fb.quiz_results[1].email = <<"a@x">>
    /\ ss.student_data = fb.students[<<"b@x">>]
    /\ ss.quiz_total = 0 /\ ss.current_quiz_data = NoneList
    /\ ssKeys \cap CareerKeyNames = {"ml_score"} /\ ss.ml_score = 28

(***************************************************************************)
(* Properties of save_student_data (SpecFB)                                *)
(***************************************************************************)
\* the step is a call of save_student_data
StudentDataSaved == fbLast'.op = "save_student_data"

\* the students collection after set(data, merge=True) on document email
MergedInto(email, data) ==
    /\ DOMAIN fb'.students = DOMAIN fb.students \cup {email}
    /\ \A k \in DOMAIN data :
          k \in DOMAIN fb'.students[email] /\ fb'.students[email][k] = data[k]
    /\ IF email \in DOMAIN fb.students
       THEN /\ DOMAIN fb'.students[email] = DOMAIN fb.students[email] \cup DOMAIN data
            /\ \A k \in DOMAIN fb.students[email] \ DOMAIN data :
                  fb'.students[email][k] = fb.students[email][k]
       ELSE DOMAIN fb'.students[email] = DOMAIN data
    /\ \A e \in DOMAIN fb.students \ {email} : fb'.students[e] = fb.students[e]

\* C17: save_student_data updates or creates the profile by merging: every
\* field of the existing students document that is not a key of the data
\* passed keeps its value, every key passed is overwritten, and no other
\* student's document and no other collection is touched; a call that
\* returns False stores nothing.
C17_SaveMerges ==
    [][StudentDataSaved =>
         IF fbLast'.ret
         THEN /\ \E email \in FbEmails, data \in FbData : MergedInto(email, data)
              /\ [Stored(fb') EXCEPT !.students = fb.students] = Stored(fb)
         ELSE Stored(fb') = Stored(fb)]_vars

\* a registered student's document after a save of the cgpa: the fields
\* written at registration are kept beside it
C17_Witness ==
    /\ fbLast.op = "save_student_data" /\ fbLast.ret /\ fbLast.wrote
    /\ DOMAIN fb.students = { <<"a@x">> }
    /\ DOMAIN fb.students[<<"a@x">>] =
          {"email", "name", "year", "subjects", "role", "created_at", "cgpa"}
    /\ fb.students[<<"a@x">>].cgpa = 80
    /\ fb.students[<<"a@x">>].role = "Student"
    /\ fb.students[<<"a@x">>].name = <<"Asha">>

========================================================================
